---- MODULE Spec2Model ----
(***************************************************************************)
(* A model of the lit-localize interchange codecs (XLB, XLIFF), of the     *)
(* per-locale file reads and writes around them, and of the transform      *)
(* output mode's tree rewrite.                                             *)
(*                                                                         *)
(* Strings are sequences of one-character strings, so that escaping,       *)
(* concatenation and re-segmentation of text are computed, not assumed.    *)
(***************************************************************************)
EXTENDS Integers, Sequences, FiniteSets, TLC

VARIABLES
  \* ---- interchange codecs (formatters/xlb.ts, formatters/xliff.ts)
  cpc,             \* position: "start", "written", "parsed"
  sourceMessages,  \* ProgramMessage[] handed to the write path
  targetLocale,    \* the locale encodeLocale is asked to encode
  targetMessages,  \* Message[]: the translations known for targetLocale
  fmt,             \* the interchange format in use: "xlb" or "xliff"
  docIn,           \* the shape of a document found on disk (read scenarios)
  xmlStr,          \* the XML text on disk (a sequence of tokens)
  bundle           \* what the read path returned (a Bundle or an error)

codecVars ==
  <<cpc, sourceMessages, targetLocale, targetMessages, fmt, docIn, xmlStr, bundle>>

VARIABLES
  \* ---- per-locale file reads and writes (XliffFormatter.readTranslations,
  \* ---- XliffFormatter.writeOutput)
  targetLocales,   \* config.targetLocales
  files,           \* per target locale, the .xlf file on disk before the read
  rpc,             \* readTranslations: "idle", "reading", "resolved", "rejected"
  reads,           \* per target locale, the state of its read task's promise
  readValues,      \* per target locale, what its promise settled with
  readResult,      \* what readTranslations returned: bundles, or the error
  readOrder,       \* the locales in the order their reads settled
  dirOk,           \* whether ensureDir succeeds
  writable,        \* per target locale, whether writeFile succeeds
  wpc,             \* writeOutput: "idle", "ensureDir", "writing", "resolved", "rejected"
  writes,          \* per target locale, the state of its writeFile promise
  writeError,      \* the error writeOutput rejected with
  writeOrder,      \* the locales in the order their writes settled
  disk             \* per target locale, the text written to "<xliffDir>/<locale>.xlf"

ioVars ==
  <<targetLocales, files, rpc, reads, readValues, readResult, readOrder,
    dirOk, writable, wpc, writes, writeError, writeOrder, disk>>

VARIABLES
  \* ---- the transformer (outputters/transform.ts)
  txNode,          \* the node handed to the transformer
  txTranslations,  \* the Message[] of the locale, or no lookup at all
  txLocale,        \* the locale the transformer is constructed with
  txOut,           \* the node's transform with the lookup
  txPlain,         \* the node's transform without a lookup
  txIsLit,         \* the isLit flag of the flattening runs
  txFlat1,         \* the template flattened and rebuilt once
  txFlat2          \* ... and once more

VARIABLES
  \* ---- transformOutput (outputters/transform.ts)
  translationsByLocale,  \* Map<Locale, Message[]>: a function on the locales it has
  optsOutDir,      \* program.getCompilerOptions().outDir
  outRoot,         \* the output root transformOutput read before its loop
  emitted,         \* the emits performed: locale, directory, lookup, output
  epc              \* transformOutput: "idle", "emitting", "resolved", "rejected"

emitVars == <<translationsByLocale, optsOutDir, outRoot, emitted, epc>>

VARIABLES
  \* ---- makeTemplateLiteral (outputters/transform.ts)
  fragmentList,    \* the strings and expressions it is given
  made             \* the template literal it returns

mkVars == <<fragmentList, made>>

txVars ==
  <<txNode, txTranslations, txLocale, txOut, txPlain, txIsLit, txFlat1, txFlat2,
    emitVars, mkVars>>

VARIABLES
  \* ---- the classMap directive (lit-html/src/directives/class-map.ts)
  staticClasses,   \* the class names in the static strings of the attribute
  classInfo,       \* the ClassInfo of the last render: name -> value
  previousClasses, \* ClassMap.previousClasses: undefined, or a set of names
  classList,       \* part.element.classList: the class tokens of the element
  renders          \* how many times the directive has been rendered

cmVars == <<staticClasses, classInfo, previousClasses, classList, renders>>

vars == <<codecVars, ioVars, txVars, cmVars>>

-----------------------------------------------------------------------------
(* Bounds of the model.                                                    *)

MaxMsgs == 2       \* messages in a list handed to a write path
MaxContents == 2   \* content items in a message
MaxUnits == 2      \* units in a document found on disk
MaxLocales == 3    \* configured target locales
MaxDepth == 2      \* nesting of expressions in a node handed to the transformer
MaxRenders == 3    \* renders of one classMap part
MaxFragments == 4  \* fragments handed to makeTemplateLiteral

-----------------------------------------------------------------------------
(* Generic helpers.                                                        *)

SeqsUpTo(S, n) == UNION {[1..k -> S] : k \in 0..n}

RECURSIVE Flatten(_)
Flatten(ss) == IF ss = <<>> THEN <<>> ELSE Head(ss) \o Flatten(Tail(ss))

RECURSIVE Repeat(_, _)
Repeat(s, n) == IF n <= 0 THEN <<>> ELSE s \o Repeat(s, n - 1)

RECURSIVE JoinWith(_, _)
JoinWith(ss, sep) ==
  IF ss = <<>> THEN <<>>
  ELSE IF Len(ss) = 1 THEN ss[1]
  ELSE ss[1] \o sep \o JoinWith(Tail(ss), sep)

StartsWith(s, p) == Len(s) >= Len(p) /\ SubSeq(s, 1, Len(p)) = p

Drop(s, n) == SubSeq(s, n + 1, Len(s))

InsertAt(s, k, x) == SubSeq(s, 1, k - 1) \o <<x>> \o SubSeq(s, k, Len(s))

\* The lists of at most n elements made of elements of few, with at most one
\* element of any (at any position).
ListsAround(any, few, n) ==
  SeqsUpTo(few, n)
  \cup UNION { {InsertAt(f, k, x) : k \in 1..(Len(f) + 1), x \in any} :
                f \in SeqsUpTo(few, n - 1) }

-----------------------------------------------------------------------------
(* Message model (messages.ts: Placeholder, Message, ProgramMessage,       *)
(* Bundle).  A content item is a text run or a placeholder.                *)

TextRun(s) == [ph |-> FALSE, s |-> s]
Placeholder(s) == [ph |-> TRUE, s |-> s]

NoError == "none"
\* No error thrown by a write path.
NoWriteError == [name |-> "none", what |-> "", path |-> <<>>, hint |-> "", cause |-> ""]
Ok(locale, messages) ==
  [ok |-> TRUE, error |-> NoError, values |-> <<>>, locale |-> locale,
   messages |-> messages]
\* A thrown error: the fixed text of its message and the values interpolated
\* into it.
ThrowWith(e, values) ==
  [ok |-> FALSE, error |-> e, values |-> values, locale |-> <<>>, messages |-> <<>>]
Throw(e) == ThrowWith(e, <<>>)

-----------------------------------------------------------------------------
(* The DOM the codecs build and walk (xmldom).  Every node has the same    *)
(* fields; a text node's value and an attribute's value are strings.       *)

TextNode(v) ==
  [type |-> "text", name |-> "#text", attrs |-> <<>>, children |-> <<>>, value |-> v]
Element(n, a, c) ==
  [type |-> "element", name |-> n, attrs |-> a, children |-> c, value |-> <<>>]
ProcessingInstruction ==
  [type |-> "pi", name |-> "xml", attrs |-> <<>>, children |-> <<>>, value |-> <<>>]
Document(c) ==
  [type |-> "document", name |-> "#document", attrs |-> <<>>, children |-> c,
   value |-> <<>>]
Attr(k, v) == [k |-> k, v |-> v]

\* element.getAttribute(k): the value, or the empty string when absent.
RECURSIVE getAttribute(_, _)
getAttribute(attrs, k) ==
  IF attrs = <<>> THEN <<>>
  ELSE IF Head(attrs).k = k THEN Head(attrs).v
  ELSE getAttribute(Tail(attrs), k)

\* node.getElementsByTagName(tag): the descendants named tag, in document
\* order, at any depth.
RECURSIVE getElementsByTagName(_, _)
RECURSIVE DescendantsNamed(_, _)
DescendantsNamed(nodes, tag) ==
  IF nodes = <<>> THEN <<>>
  ELSE LET n == Head(nodes) IN
       (IF n.type = "element" /\ n.name = tag THEN <<n>> ELSE <<>>)
       \o getElementsByTagName(n, tag)
       \o DescendantsNamed(Tail(nodes), tag)
getElementsByTagName(node, tag) == DescendantsNamed(node.children, tag)

-----------------------------------------------------------------------------
(* XMLSerializer.serializeToString and DOMParser.parseFromString.  The XML *)
(* text is a sequence of tokens: a character of character data, or a tag.  *)

Chr(c) == [t |-> "chr", name |-> c, attrs |-> <<>>]
Tag(t, n, a) == [t |-> t, name |-> n, attrs |-> a]

\* Character data and attribute values are written with markup characters
\* replaced by entity references.
XmlEncodeChar(c) ==
  CASE c = "<" -> <<"&", "l", "t", ";">>
    [] c = ">" -> <<"&", "g", "t", ";">>
    [] c = "&" -> <<"&", "a", "m", "p", ";">>
    [] c = "\"" -> <<"&", "q", "u", "o", "t", ";">>
    [] OTHER -> <<c>>

RECURSIVE XmlEncode(_)
XmlEncode(s) == IF s = <<>> THEN <<>> ELSE XmlEncodeChar(Head(s)) \o XmlEncode(Tail(s))

\* Entity references are replaced by their character when text is read.
RECURSIVE XmlDecode(_)
XmlDecode(s) ==
  IF s = <<>> THEN <<>>
  ELSE IF StartsWith(s, <<"&", "l", "t", ";">>) THEN <<"<">> \o XmlDecode(Drop(s, 4))
  ELSE IF StartsWith(s, <<"&", "g", "t", ";">>) THEN <<">">> \o XmlDecode(Drop(s, 4))
  ELSE IF StartsWith(s, <<"&", "a", "m", "p", ";">>) THEN <<"&">> \o XmlDecode(Drop(s, 5))
  ELSE IF StartsWith(s, <<"&", "q", "u", "o", "t", ";">>)
       THEN <<"\"">> \o XmlDecode(Drop(s, 6))
  ELSE <<Head(s)>> \o XmlDecode(Tail(s))

EncodeAttrs(attrs) == [i \in 1..Len(attrs) |-> Attr(attrs[i].k, XmlEncode(attrs[i].v))]
DecodeAttrs(attrs) == [i \in 1..Len(attrs) |-> Attr(attrs[i].k, XmlDecode(attrs[i].v))]

Chars(s) == [i \in 1..Len(s) |-> Chr(s[i])]

\* An element with no child node is written as an empty-element tag; a text
\* node writes only its (encoded) data, so an empty text node writes nothing.
RECURSIVE serializeToString(_)
RECURSIVE SerializeNodes(_)
SerializeNodes(nodes) ==
  IF nodes = <<>> THEN <<>>
  ELSE serializeToString(Head(nodes)) \o SerializeNodes(Tail(nodes))
serializeToString(n) ==
  CASE n.type = "text" -> Chars(XmlEncode(n.value))
    [] n.type = "pi" -> <<Tag("pi", n.name, <<>>)>>
    [] n.type = "document" -> SerializeNodes(n.children)
    [] OTHER ->
         IF n.children = <<>>
         THEN <<Tag("empty", n.name, EncodeAttrs(n.attrs))>>
         ELSE <<Tag("open", n.name, EncodeAttrs(n.attrs))>>
              \o SerializeNodes(n.children)
              \o <<Tag("close", n.name, <<>>)>>

\* The parser keeps a stack of open elements (the document at the bottom) and
\* a buffer of character data; a non-empty buffer becomes one text node when
\* the next tag, or the end of the input, is met.
FlushText(stack, buf) ==
  IF buf = <<>> THEN stack
  ELSE LET top == stack[Len(stack)] IN
       [stack EXCEPT ![Len(stack)] =
          [top EXCEPT !.children = Append(top.children, TextNode(XmlDecode(buf)))]]

AppendChild(stack, node) ==
  LET top == stack[Len(stack)] IN
  [stack EXCEPT ![Len(stack)] = [top EXCEPT !.children = Append(top.children, node)]]

\* One token met by the parser; state is the stack and the buffer.
ParseToken(state, tk) ==
  LET flushed == FlushText(state.stack, state.buf) IN
  CASE tk.t = "chr" -> [stack |-> state.stack, buf |-> Append(state.buf, tk.name)]
    [] tk.t = "pi" -> [stack |-> AppendChild(flushed, ProcessingInstruction), buf |-> <<>>]
    [] tk.t = "empty" ->
         [stack |-> AppendChild(flushed, Element(tk.name, DecodeAttrs(tk.attrs), <<>>)),
          buf |-> <<>>]
    [] tk.t = "open" ->
         [stack |-> Append(flushed, Element(tk.name, DecodeAttrs(tk.attrs), <<>>)),
          buf |-> <<>>]
    [] OTHER ->
         \* a close tag: the open element becomes a child of its parent
         IF Len(flushed) < 2 THEN [stack |-> flushed, buf |-> <<>>]
         ELSE [stack |-> AppendChild(SubSeq(flushed, 1, Len(flushed) - 1),
                                     flushed[Len(flushed)]),
               buf |-> <<>>]

\* The tokens lo..hi met in order from the given state, whose stack has the
\* document at the bottom (the range is halved and the state looked at first
\* so that the evaluation stays shallow).
RECURSIVE ParseTokens(_, _, _, _)
ParseTokens(toks, lo, hi, state) ==
  IF lo > hi \/ state.stack = <<>> THEN state
  ELSE IF lo = hi THEN ParseToken(state, toks[lo])
  ELSE ParseTokens(toks, ((lo + hi) \div 2) + 1, hi,
                   ParseTokens(toks, lo, (lo + hi) \div 2, state))

ParsedDocument(state) == FlushText(state.stack, state.buf)[1]

parseFromString(toks) ==
  ParsedDocument(ParseTokens(toks, 1, Len(toks),
                             [stack |-> <<Document(<<>>)>>, buf |-> <<>>]))

-----------------------------------------------------------------------------
(* Configuration (config.ts): the source locale and the target locales.    *)

SourceLocale == <<"e", "n">>

\* String(n) for the small numbers the model reaches.
DecimalString(n) == << <<"0">>, <<"1">>, <<"2">>, <<"3">>, <<"4">>, <<"5">> >>[n + 1]

\* The i-th target locale's code.
Locale(i) == <<"l">> \o DecimalString(i)

\* A node of the TypeScript AST (its fields are described with the
\* transformer).
Node(kind, text, parts, kids) ==
  [kind |-> kind, text |-> text, parts |-> parts, kids |-> kids]

\* translations is undefined for the source locale.
NoLookup == [defined |-> FALSE, messages |-> <<>>]

\* The transformer has not been run.
NotRun == Node("notRun", <<>>, <<>>, <<>>)

\* No Transformer has visited anything.
IdleVisit ==
  /\ txTranslations = NoLookup /\ txLocale = SourceLocale
  /\ txOut = NotRun /\ txPlain = NotRun
  /\ txIsLit = FALSE /\ txFlat1 = NotRun /\ txFlat2 = NotRun

\* transformOutput has not been called.
IdleEmit ==
  /\ translationsByLocale = <<>> /\ optsOutDir = <<>> /\ outRoot = <<>>
  /\ emitted = <<>> /\ epc = "idle"

\* No classMap part has been rendered.
IdleClassMap ==
  /\ staticClasses = {} /\ classInfo = <<>>
  /\ previousClasses = [defined |-> FALSE, names |-> {}]
  /\ classList = {} /\ renders = 0

\* makeTemplateLiteral has not been called on its own.
IdleMake == fragmentList = <<>> /\ made = NotRun

IdleTransform == txNode = NotRun /\ IdleVisit /\ IdleEmit /\ IdleClassMap /\ IdleMake

-----------------------------------------------------------------------------
(* formatters/xml-utils.ts and messages.ts helpers the codecs call.        *)

\* getOneElementByTagNameOrThrow(node, tag): the only descendant named tag;
\* none, or more than one, is an error.  Returned as a parse result whose
\* messages field carries the element.
getOneElementByTagNameOrThrow(node, tag) ==
  LET found == getElementsByTagName(node, tag) IN
  IF Len(found) # 1 THEN Throw("KnownError: expected exactly one element")
  ELSE Ok(<<>>, found)

\* getNonEmptyAttributeOrThrow(element, name): the attribute's string, an
\* error when it is absent or empty.  Returned in the locale field.
getNonEmptyAttributeOrThrow(element, k) ==
  LET v == getAttribute(element.attrs, k) IN
  IF v = <<>> THEN Throw("KnownError: expected non-empty attribute")
  ELSE Ok(v, <<>>)

\* makeMessageIdMap(messages).get(name): the message filed under name (a
\* later message replaces an earlier one of the same name), as a sequence of
\* zero or one message.
RECURSIVE makeMessageIdMapGet(_, _)
makeMessageIdMapGet(messages, name) ==
  IF messages = <<>> THEN <<>>
  ELSE LET m == messages[Len(messages)] IN
       IF m.name = name THEN <<m>>
       ELSE makeMessageIdMapGet(SubSeq(messages, 1, Len(messages) - 1), name)

-----------------------------------------------------------------------------
(* Both read paths rebuild a message's contents from the child nodes of    *)
(* its element in the same way (xliff.ts 122-145, xlb.ts 111-134).         *)

ErrPh == "KnownError: Expected <ph> to have exactly one text node"
ErrNode == "KnownError: Unexpected node"

\* The result carries the contents in the messages field.
RECURSIVE ParseContents(_, _)
ParseContents(childNodes, contents) ==
  IF childNodes = <<>> THEN Ok(<<>>, contents)
  ELSE LET child == Head(childNodes) IN
       IF child.type = "text"
       THEN ParseContents(Tail(childNodes), Append(contents, TextRun(child.value)))
       ELSE IF child.type = "element" /\ child.name = "ph"
       THEN IF \/ Len(child.children) # 1
               \/ child.children[1].type # "text"
            THEN Throw(ErrPh)
            ELSE ParseContents(Tail(childNodes),
                   Append(contents, Placeholder(child.children[1].value)))
       ELSE ThrowWith(ErrNode, <<<<IF child.type = "element" THEN "1" ELSE "7">>,
                                 <<child.name>>>>)

-----------------------------------------------------------------------------
(* XLB (formatters/xlb.ts).                                                *)

Indent(level) == TextNode(<<"\n">> \o Repeat(<<" ">>, 2 * level))

DescSeparator == <<" ", "/", " ">>

\* Every content written as a text node, placeholders included.
ContentNodeAsText(content) == TextNode(content.s)

ContentNode(content) ==
  IF content.ph THEN Element("ph", <<>>, <<TextNode(content.s)>>)
  ELSE TextNode(content.s)

XlbMsgNode(m) ==
  Element("msg",
    <<Attr("name", m.name)>>
      \o (IF Len(m.descStack) > 0
          THEN <<Attr("desc", JoinWith(m.descStack, DescSeparator))>> ELSE <<>>),
    [i \in 1..Len(m.contents) |-> ContentNode(m.contents[i])])

\* The document writeOutput builds, in the order it appends the nodes.
XlbDocument(messages) ==
  LET messagesNode ==
        Element("messages", <<>>,
          Flatten([i \in 1..Len(messages) |-> <<Indent(2), XlbMsgNode(messages[i])>>])
            \o <<Indent(1)>>)
      bundleNode ==
        Element("localizationbundle", <<Attr("locale", SourceLocale)>>,
          <<Indent(1), messagesNode, Indent(0)>>)
  IN Document(<<ProcessingInstruction, Indent(0), bundleNode, Indent(0)>>)

XlbSerialize(messages) == serializeToString(XlbDocument(messages))

RECURSIVE ParseXmbMessages(_, _)
ParseXmbMessages(msgNodes, messages) ==
  IF msgNodes = <<>> THEN Ok(<<>>, messages)
  ELSE LET msg == Head(msgNodes)
           name == getNonEmptyAttributeOrThrow(msg, "name")
           contents == ParseContents(msg.children, <<>>)
       IN IF ~name.ok THEN name
          ELSE IF ~contents.ok THEN contents
          ELSE ParseXmbMessages(Tail(msgNodes),
                 Append(messages, [name |-> name.locale, contents |-> contents.messages]))

parseXmb(str) ==
  LET doc == parseFromString(str)
      found == getOneElementByTagNameOrThrow(doc, "localizationbundle")
  IN IF ~found.ok THEN found
     ELSE LET locale == getNonEmptyAttributeOrThrow(found.messages[1], "locale")
              messages == ParseXmbMessages(getElementsByTagName(doc, "msg"), <<>>)
          IN IF ~locale.ok THEN locale
             ELSE IF ~messages.ok THEN messages
             ELSE Ok(locale.locale, messages.messages)

-----------------------------------------------------------------------------
(* XLIFF (formatters/xliff.ts).                                            *)

ErrTargets == "KnownError: Expected 0 or 1 <target> in <trans-unit>"


\* encodeContents: a text node per text run, a <ph id=N> per placeholder, N
\* counting the placeholders before it.
RECURSIVE encodeContents(_, _)
encodeContents(contents, phIdx) ==
  IF contents = <<>> THEN <<>>
  ELSE LET content == Head(contents) IN
       IF ~content.ph
       THEN <<TextNode(content.s)>> \o encodeContents(Tail(contents), phIdx)
       ELSE <<Element("ph", <<Attr("id", DecimalString(phIdx))>>, <<TextNode(content.s)>>)>>
            \o encodeContents(Tail(contents), phIdx + 1)

\* A trans-unit whose <target> repeats the source contents.
TransUnitNodeSourceAsTarget(m, targets) ==
  LET translation == makeMessageIdMapGet(targets, m.name) IN
  Element("trans-unit", <<Attr("id", m.name)>>,
    <<Indent(1), Element("source", <<>>, encodeContents(m.contents, 0))>>
    \o (IF translation # <<>>
        THEN <<Indent(1), Element("target", <<>>, encodeContents(m.contents, 0))>>
        ELSE <<>>)
    \o <<Indent(0)>>)

TransUnitNode(m, targets) ==
  LET translation == makeMessageIdMapGet(targets, m.name) IN
  Element("trans-unit", <<Attr("id", m.name)>>,
    <<Indent(1)>>
    \o (IF Len(m.descStack) > 0
        THEN <<Element("note", <<>>, <<TextNode(JoinWith(m.descStack, DescSeparator))>>),
               Indent(1)>>
        ELSE <<>>)
    \o <<Element("source", <<>>, encodeContents(m.contents, 0))>>
    \o (IF translation # <<>>
        THEN <<Indent(1), Element("target", <<>>, encodeContents(translation[1].contents, 0))>>
        ELSE <<>>)
    \o <<Indent(0)>>)

XliffDocument(messages, locale, targets) ==
  LET body ==
        Element("body", <<>>,
          <<Indent(0)>>
          \o Flatten([i \in 1..Len(messages) |->
                        <<TransUnitNode(messages[i], targets), Indent(0)>>]))
      file ==
        Element("file",
          <<Attr("target-language", locale), Attr("source-language", SourceLocale),
            Attr("original", <<"lit-localize-inputs">>), Attr("datatype", <<"plaintext">>)>>,
          <<Indent(0), body, Indent(0)>>)
      xliff ==
        Element("xliff",
          <<Attr("version", <<"1.2">>),
            Attr("xmlns", <<"http://www.w3.org/2001/XMLSchema-instance">>),
            Attr("xsi:schemaLocation",
                 <<"urn:oasis:names:tc:xliff:document:1.2 xliff-core-1.2-strict.xsd">>)>>,
          <<Indent(0), file, Indent(0)>>)
  IN Document(<<ProcessingInstruction, Indent(0), xliff, Indent(0)>>)

encodeLocale(messages, locale, targets) ==
  serializeToString(XliffDocument(messages, locale, targets))

\* The loop of parseXlif, were it to read the first <target> of a unit that
\* has several.
RECURSIVE ParseTransUnitsFirstTarget(_, _)
ParseTransUnitsFirstTarget(transUnits, messages) ==
  IF transUnits = <<>> THEN Ok(<<>>, messages)
  ELSE LET transUnit == Head(transUnits)
           name == getNonEmptyAttributeOrThrow(transUnit, "id")
           targets == getElementsByTagName(transUnit, "target")
       IN IF ~name.ok THEN name
          ELSE IF Len(targets) = 0
          THEN ParseTransUnitsFirstTarget(Tail(transUnits), messages)
          ELSE LET contents == ParseContents(targets[1].children, <<>>) IN
               IF ~contents.ok THEN contents
               ELSE ParseTransUnitsFirstTarget(Tail(transUnits),
                      Append(messages,
                        [name |-> name.locale, contents |-> contents.messages]))

\* The loop of parseXlif over the trans-unit elements (xliff.ts 107-147).
RECURSIVE ParseTransUnits(_, _)
ParseTransUnits(transUnits, messages) ==
  IF transUnits = <<>> THEN Ok(<<>>, messages)
  ELSE LET transUnit == Head(transUnits)
           name == getNonEmptyAttributeOrThrow(transUnit, "id")
           targets == getElementsByTagName(transUnit, "target")
       IN IF ~name.ok THEN name
          ELSE IF Len(targets) = 0 THEN ParseTransUnits(Tail(transUnits), messages)
          ELSE IF Len(targets) > 1
          THEN ThrowWith(ErrTargets, <<DecimalString(Len(targets))>>)
          ELSE LET contents == ParseContents(targets[1].children, <<>>) IN
               IF ~contents.ok THEN contents
               ELSE ParseTransUnits(Tail(transUnits),
                      Append(messages,
                        [name |-> name.locale, contents |-> contents.messages]))

\* parseXlif taking the first <file> it finds, however many there are.
parseXlifFirstFile(str) ==
  LET doc == parseFromString(str)
      fileElements == getElementsByTagName(doc, "file")
  IN IF fileElements = <<>> THEN Throw("KnownError: expected exactly one element")
     ELSE LET locale == getNonEmptyAttributeOrThrow(fileElements[1], "target-language")
              messages == ParseTransUnits(getElementsByTagName(fileElements[1], "trans-unit"), <<>>)
          IN IF ~locale.ok THEN locale
             ELSE IF ~messages.ok THEN messages
             ELSE Ok(locale.locale, messages.messages)

parseXlif(str) ==
  LET doc == parseFromString(str)
      found == getOneElementByTagNameOrThrow(doc, "file")
  IN IF ~found.ok THEN found
     ELSE LET file == found.messages[1]
              locale == getNonEmptyAttributeOrThrow(file, "target-language")
              messages == ParseTransUnits(getElementsByTagName(file, "trans-unit"), <<>>)
          IN IF ~locale.ok THEN locale
             ELSE IF ~messages.ok THEN messages
             ELSE Ok(locale.locale, messages.messages)

-----------------------------------------------------------------------------
(* Inputs of the codecs.                                                   *)

\* Text runs and placeholder payloads: plain text, text made of markup
\* characters and of something that reads as an entity reference, markup, an
\* expression, and the empty string.
ItemPool ==
  { TextRun(<<>>), TextRun(<<"a">>), TextRun(<<"<", "&", "l", "t", ";">>),
    Placeholder(<<"<", "b", ">">>), Placeholder(<<>>) }

NamePool == { <<"m">>, <<"n", "\"">> }
ContentsPool == SeqsUpTo(ItemPool, MaxContents)

\* The description stack goes with the name: "m" has none.
DescStackOf(name) == IF name = <<"m">> THEN <<>> ELSE << <<"d">>, <<"e">> >>

ProgramMessages ==
  { [name |-> n, contents |-> c, descStack |-> DescStackOf(n)] :
      n \in NamePool, c \in ContentsPool }
FewProgramMessages ==
  { [name |-> n, contents |-> <<TextRun(<<"a">>), Placeholder(<<"<", "b", ">">>)>>,
     descStack |-> DescStackOf(n)] : n \in NamePool }

\* The XLIFF scenarios: what matters of the source messages is which names
\* have a translation; the translations are what is read back.
XliffItemPool ==
  { TextRun(<<"a", "&">>), Placeholder(<<"<", "b", ">">>), Placeholder(<<>>) }
Messages == [name : NamePool, contents : SeqsUpTo(XliffItemPool, MaxContents)]
FewMessages == [name : NamePool, contents : {<<Placeholder(<<"<", "b", ">">>)>>}]

\* Documents found on disk are described by their shape: how many candidate
\* top-level elements there are, the locale attribute of the first, and the
\* units inside it.
LocaleAttrs == {"absent", "empty", "es", "ES"}
LocaleAttrValue(a) ==
  CASE a = "es" -> <<"e", "s">> [] a = "ES" -> <<"E", "S">> [] OTHER -> <<>>
LocaleAttr(k, a) == IF a = "absent" THEN <<>> ELSE <<Attr(k, LocaleAttrValue(a))>>

PhText == Element("ph", <<Attr("id", <<"0">>)>>, <<TextNode(<<"<", "b", ">">>)>>)
PhEmpty == Element("ph", <<>>, <<>>)
PhElement == Element("ph", <<>>, <<Element("b", <<>>, <<>>)>>)
PhTwo == Element("ph", <<>>, <<TextNode(<<"x">>), Element("b", <<>>, <<>>)>>)

ChildShapes ==
  { <<>>, <<TextNode(<<"h", "o", "l", "a">>)>>, <<TextNode(<<"h">>), PhText>>,
    <<PhEmpty>>, <<PhElement>>, <<PhTwo>>, <<Element("b", <<>>, <<>>)>> }

UnitNames == {"absent", "a", "b"}
UnitNameAttr(k, n) == IF n = "absent" THEN <<>> ELSE <<Attr(k, <<n>>)>>

\* A unit's shape: its id/name, the number of <target> elements (XLIFF) and
\* the child nodes of the message element.
UnitShapes == [name : UnitNames, targets : 0..2, children : ChildShapes]
XlbUnitShapes == {u \in UnitShapes : u.targets = 1}
FewUnitShapes ==
  [name : {"a", "b"}, targets : {1}, children : {<<TextNode(<<"h", "o", "l", "a">>)>>}]
XliffUnitShapes ==
  {u \in UnitShapes : u.targets = 1 \/ u.children = <<TextNode(<<"h", "o", "l", "a">>)>>}

XlbUnit(u) == Element("msg", UnitNameAttr("name", u.name), u.children)
XliffUnit(u) ==
  Element("trans-unit", UnitNameAttr("id", u.name),
    <<Element("source", <<>>, <<TextNode(<<"h", "i">>)>>)>>
    \o [i \in 1..u.targets |-> Element("target", <<>>, u.children)])

DocShapes(units) ==
  { d \in [onDisk : {TRUE}, roots : 0..2, locale : LocaleAttrs,
           units : ListsAround(units, FewUnitShapes, MaxUnits)] :
      d.roots # 1 => d.locale = "es" }
NoDoc == [onDisk |-> FALSE, roots |-> 1, locale |-> "absent", units |-> <<>>]

\* The first candidate element carries the locale attribute and the units,
\* a second one is another locale's; with no candidate element the units sit
\* in an element of another name.
DiskDocument(f, d) ==
  LET tag == IF f = "xlb" THEN "localizationbundle" ELSE "file"
      key == IF f = "xlb" THEN "locale" ELSE "target-language"
      units == [i \in 1..Len(d.units) |->
                  IF f = "xlb" THEN XlbUnit(d.units[i]) ELSE XliffUnit(d.units[i])]
      first == Element(IF d.roots = 0 THEN "other" ELSE tag, LocaleAttr(key, d.locale), units)
      second == Element(tag, <<Attr(key, <<"f", "r">>)>>, <<>>)
      roots == IF d.roots = 2 THEN <<first, second>> ELSE <<first>>
  IN Document(<<ProcessingInstruction, Element("xliff", <<>>, roots)>>)

-----------------------------------------------------------------------------
(* The codecs as a state machine: a write path produces the XML text, or   *)
(* the text is a document found on disk; the read path parses it.          *)

NoBundle == Throw("not parsed")

InitWriteXlb ==
  /\ fmt = "xlb" /\ cpc = "start"
  /\ sourceMessages \in ListsAround(ProgramMessages, FewProgramMessages, MaxMsgs)
  /\ targetLocale = SourceLocale /\ targetMessages = <<>>
  /\ docIn = NoDoc /\ xmlStr = <<>> /\ bundle = NoBundle

InitWriteXliff ==
  /\ fmt = "xliff" /\ cpc = "start"
  /\ sourceMessages \in SeqsUpTo(FewProgramMessages, MaxMsgs)
  /\ targetLocale = Locale(1)
  /\ targetMessages \in ListsAround(Messages, FewMessages, MaxMsgs)
  /\ docIn = NoDoc /\ xmlStr = <<>> /\ bundle = NoBundle

InitRead ==
  /\ fmt \in {"xlb", "xliff"} /\ cpc = "written"
  /\ sourceMessages = <<>> /\ targetLocale = SourceLocale /\ targetMessages = <<>>
  /\ docIn \in DocShapes(IF fmt = "xlb" THEN XlbUnitShapes ELSE XliffUnitShapes)
  /\ xmlStr = serializeToString(DiskDocument(fmt, docIn))
  /\ bundle = NoBundle

\* The file operations at rest.
IdleIO ==
  /\ targetLocales = <<>> /\ files = <<>> /\ rpc = "idle" /\ reads = <<>>
  /\ readValues = <<>> /\ readResult = [ok |-> FALSE, bundles |-> <<>>, error |-> "none"]
  /\ readOrder = <<>>
  /\ dirOk = TRUE /\ writable = <<>> /\ wpc = "idle" /\ writes = <<>>
  /\ writeError = NoWriteError /\ writeOrder = <<>> /\ disk = <<>>

InitCodec == (InitWriteXlb \/ InitWriteXliff \/ InitRead) /\ IdleIO /\ IdleTransform

\* XlbFormatter.writeOutput, up to the serialized text it hands to writeFile.
XlbWriteOutput ==
  /\ cpc = "start" /\ fmt = "xlb"
  /\ xmlStr' = XlbSerialize(sourceMessages)
  /\ cpc' = "written"
  /\ UNCHANGED <<sourceMessages, targetLocale, targetMessages, fmt, docIn, bundle>>
  /\ UNCHANGED <<ioVars, txVars, cmVars>>

\* XliffFormatter.encodeLocale for one target locale.
XliffEncodeLocale ==
  /\ cpc = "start" /\ fmt = "xliff"
  /\ xmlStr' = encodeLocale(sourceMessages, targetLocale, targetMessages)
  /\ cpc' = "written"
  /\ UNCHANGED <<sourceMessages, targetLocale, targetMessages, fmt, docIn, bundle>>
  /\ UNCHANGED <<ioVars, txVars, cmVars>>

XlbParse ==
  /\ cpc = "written" /\ fmt = "xlb"
  /\ bundle' = parseXmb(xmlStr)
  /\ cpc' = "parsed"
  /\ UNCHANGED <<sourceMessages, targetLocale, targetMessages, fmt, docIn, xmlStr>>
  /\ UNCHANGED <<ioVars, txVars, cmVars>>

XliffParse ==
  /\ cpc = "written" /\ fmt = "xliff"
  /\ bundle' = parseXlif(xmlStr)
  /\ cpc' = "parsed"
  /\ UNCHANGED <<sourceMessages, targetLocale, targetMessages, fmt, docIn, xmlStr>>
  /\ UNCHANGED <<ioVars, txVars, cmVars>>

NextCodec == XlbWriteOutput \/ XliffEncodeLocale \/ XlbParse \/ XliffParse

SpecCodec == InitCodec /\ [][NextCodec]_vars

-----------------------------------------------------------------------------
(* XliffFormatter.readTranslations (xliff.ts 69-94): one task per target   *)
(* locale, started in the loop, joined by Promise.all.                     *)

\* What a missing file makes its task return.
Null == ThrowWith("null", <<>>)

FewSources == <<CHOOSE m \in FewProgramMessages : m.name = <<"m">> >>
FewTargets == <<CHOOSE m \in FewMessages : m.name = <<"m">> >>

\* The file of a locale before the read: not there, not readable, or readable
\* with a translated document or with one parseXlif rejects.
MissingFile == [errno |-> "ENOENT", wellFormed |-> FALSE, content |-> <<>>]
DeniedFile == [errno |-> "EACCES", wellFormed |-> FALSE, content |-> <<>>]
TranslatedFile(i) ==
  [errno |-> "none", wellFormed |-> TRUE,
   content |-> encodeLocale(FewSources, Locale(i), FewTargets)]
MalformedFile ==
  [errno |-> "none", wellFormed |-> FALSE,
   content |-> serializeToString(DiskDocument("xliff",
                 [onDisk |-> TRUE, roots |-> 1, locale |-> "es",
                  units |-> <<[name |-> "a", targets |-> 2,
                               children |-> <<TextNode(<<"h", "o", "l", "a">>)>>]>>]))]
FilesOf(i) == {MissingFile, DeniedFile, TranslatedFile(i), MalformedFile}

Fulfilled(v) == [state |-> "fulfilled", value |-> v]
Rejected(v) == [state |-> "rejected", value |-> v]

\* The task of a missing file that rethrows ENOENT like any other error.
readTaskNoEnoentCheck(file) ==
  IF file.errno # "none" THEN Rejected(Throw(file.errno))
  ELSE LET parsed == parseXlif(file.content) IN
       IF parsed.ok THEN Fulfilled(parsed) ELSE Rejected(parsed)

\* The async task of one locale, from the completion of readFile on.
readTask(file) ==
  IF file.errno = "ENOENT" THEN Fulfilled(Null)
  ELSE IF file.errno # "none" THEN Rejected(Throw(file.errno))
  ELSE LET parsed == parseXlif(file.content) IN
       IF parsed.ok THEN Fulfilled(parsed) ELSE Rejected(parsed)

\* A join that waits for every promise to settle before it rejects.
PromiseAllSettled(states) ==
  IF \E i \in DOMAIN states : states[i] \notin {"fulfilled", "rejected"} THEN "pending"
  ELSE IF \E i \in DOMAIN states : states[i] = "rejected" THEN "rejected"
  ELSE "resolved"

\* Promise.all over promises in the given states: rejected as soon as one is,
\* resolved once all are fulfilled.
PromiseAll(states) ==
  IF \E i \in DOMAIN states : states[i] = "rejected" THEN "rejected"
  ELSE IF \A i \in DOMAIN states : states[i] = "fulfilled" THEN "resolved"
  ELSE "pending"

\* A filter that returns what it keeps in the reverse order.
RECURSIVE FilterNonNullReversed(_)
FilterNonNullReversed(values) ==
  IF values = <<>> THEN <<>>
  ELSE FilterNonNullReversed(Tail(values))
       \o (IF Head(values) = Null THEN <<>> ELSE <<Head(values)>>)

\* .filter((x) => x !== null)
RECURSIVE FilterNonNull(_)
FilterNonNull(values) ==
  IF values = <<>> THEN <<>>
  ELSE (IF Head(values) = Null THEN <<>> ELSE <<Head(values)>>)
       \o FilterNonNull(Tail(values))

NoResult == [ok |-> FALSE, bundles |-> <<>>, error |-> NoError]

LocaleLists == {[i \in 1..n |-> Locale(i)] : n \in 0..MaxLocales}

IdleCodec ==
  /\ cpc = "start" /\ fmt = "xliff" /\ sourceMessages = FewSources
  /\ targetLocale = SourceLocale /\ targetMessages = FewTargets
  /\ docIn = NoDoc /\ xmlStr = <<>> /\ bundle = NoBundle

IdleWrite ==
  /\ dirOk = TRUE /\ writable = <<>> /\ wpc = "idle" /\ writes = <<>>
  /\ writeError = NoWriteError /\ writeOrder = <<>> /\ disk = <<>>

IdleRead ==
  /\ files = <<>> /\ rpc = "idle" /\ reads = <<>> /\ readValues = <<>>
  /\ readResult = NoResult /\ readOrder = <<>>

InitReadTranslations ==
  /\ IdleCodec /\ IdleWrite /\ IdleTransform
  /\ targetLocales \in LocaleLists
  /\ files \in {f \in [DOMAIN targetLocales -> UNION {FilesOf(i) : i \in 1..MaxLocales}] :
                  \A i \in DOMAIN f : f[i] \in FilesOf(i)}
  /\ rpc = "idle"
  /\ reads = [i \in DOMAIN targetLocales |-> "notStarted"]
  /\ readValues = [i \in DOMAIN targetLocales |-> Null]
  /\ readResult = NoResult
  /\ readOrder = <<>>

\* The call: the loop starts every task (each runs up to its readFile), then
\* Promise.all is awaited; with no target locale it resolves at once.
ReadTranslationsCall ==
  /\ rpc = "idle"
  /\ reads' = [i \in DOMAIN targetLocales |-> "pending"]
  /\ IF targetLocales = <<>>
     THEN rpc' = "resolved" /\ readResult' = [NoResult EXCEPT !.ok = TRUE]
     ELSE rpc' = "reading" /\ readResult' = readResult
  /\ UNCHANGED <<targetLocales, files, readValues, readOrder>>
  /\ UNCHANGED <<dirOk, writable, wpc, writes, writeError, writeOrder, disk>>
  /\ UNCHANGED <<codecVars, txVars, cmVars>>

\* The read of locale i completes and its task settles; Promise.all, and with
\* it readTranslations, settles if this decides it.
ReadSettle(i) ==
  /\ reads[i] = "pending"
  /\ LET outcome == readTask(files[i])
         states == [reads EXCEPT ![i] = outcome.state]
         values == [readValues EXCEPT ![i] = outcome.value]
     IN /\ reads' = states
        /\ readValues' = values
        /\ readOrder' = Append(readOrder, i)
        /\ IF rpc = "reading" /\ PromiseAll(states) = "rejected"
           THEN /\ rpc' = "rejected"
                /\ readResult' = [ok |-> FALSE, bundles |-> <<>>, error |-> outcome.value.error]
           ELSE IF rpc = "reading" /\ PromiseAll(states) = "resolved"
           THEN /\ rpc' = "resolved"
                /\ readResult' = [ok |-> TRUE, bundles |-> FilterNonNull(values),
                                  error |-> NoError]
           ELSE UNCHANGED <<rpc, readResult>>
  /\ UNCHANGED <<targetLocales, files>>
  /\ UNCHANGED <<dirOk, writable, wpc, writes, writeError, writeOrder, disk>>
  /\ UNCHANGED <<codecVars, txVars, cmVars>>

NextRead == ReadTranslationsCall \/ \E i \in DOMAIN targetLocales : ReadSettle(i)

SpecRead == InitReadTranslations /\ [][NextRead]_vars

-----------------------------------------------------------------------------
(* XliffFormatter.writeOutput (xliff.ts 156-189): the directory, then one  *)
(* writeFile per target locale issued in the loop, joined by Promise.all.  *)
(* XlbFormatter.writeOutput (xlb.ts 143-200): the directory, then the one  *)
(* output file.  A path is the sequence of its segments.                   *)

ErrDir == "Error creating XLIFF directory"
ErrFile == "Error creating XLIFF file"
ErrXlbDir == "Error creating XLB directory"
ErrXlbFile == "Error creating XLB file"
PermissionHint == "Do you have write permission?"

\* What fs-extra rejects with when the process may not write.
FsError(path) ==
  [name |-> "Error", what |-> "EACCES: permission denied", path |-> path,
   hint |-> "", cause |-> ""]

\* new KnownError(`${what}: ${path}\n` + `Do you have write permission?\n` + e.message)
KnownError(what, path, e) ==
  [name |-> "KnownError", what |-> what, path |-> path,
   hint |-> PermissionHint, cause |-> e.what]

\* this.config.resolve(this.xliffConfig.xliffDir)
XliffDir == <<<<"d", "a", "t", "a">>, <<"x", "l", "i", "f", "f">>>>

\* pathLib.join(xliffDir, `${targetLocale}.xlf`)
XliffPath(locale) == Append(XliffDir, locale \o <<".", "x", "l", "f">>)

\* this.config.resolve(this.xlbConfig.outputFile)
XlbFilePath == <<<<"d", "a", "t", "a">>, <<"o", "u", "t", ".", "x", "l", "b">>>>

\* pathlib.dirname
dirname(path) == SubSeq(path, 1, Len(path) - 1)

\* The catch around ensureDir (xliff.ts 163-169, xlb.ts 184-190).
DirError(what, path) == KnownError(what, path, FsError(path))

\* The catch of a writeFile, were it to rethrow what it caught.
FileErrorRethrown(what, path) == FsError(path)

\* The catch of a writeFile (xliff.ts 178-184, xlb.ts 193-199).
FileError(what, path) == KnownError(what, path, FsError(path))

\* translations.get(targetLocale) || []: the first locale has translations.
TranslationsGet(i) == IF i = 1 THEN FewTargets ELSE <<>>

\* A loop that awaits each write before issuing the next one.
IssueWritesInTurn(locales, canWrite) ==
  [i \in DOMAIN locales |->
     IF \A j \in 1..(i - 1) : canWrite[j] THEN "pending" ELSE "notIssued"]

\* The loop of writeOutput: every locale's writeFile is issued, none awaited.
IssueWrites(locales, canWrite) == [i \in DOMAIN locales |-> "pending"]

\* The XLIFF formatter writes one file per target locale, the XLB formatter
\* the one file of the source messages.
InitWriteOutput ==
  /\ IdleRead /\ IdleTransform
  /\ cpc = "start" /\ fmt \in {"xliff", "xlb"} /\ sourceMessages = FewSources
  /\ targetLocale = SourceLocale /\ targetMessages = FewTargets
  /\ docIn = NoDoc /\ xmlStr = <<>> /\ bundle = NoBundle
  /\ targetLocales \in LocaleLists
  /\ dirOk \in BOOLEAN
  /\ writable \in [IF fmt = "xlb" THEN {1} ELSE DOMAIN targetLocales -> BOOLEAN]
  /\ wpc = "idle"
  /\ writes = [i \in DOMAIN writable |-> "notIssued"]
  /\ writeError = NoWriteError
  /\ writeOrder = <<>>
  /\ disk = [i \in DOMAIN writable |-> <<>>]

\* The call runs up to the await of fsExtra.ensureDir.
WriteOutputCall ==
  /\ fmt = "xliff" /\ wpc = "idle"
  /\ wpc' = "ensureDir"
  /\ UNCHANGED <<targetLocales, dirOk, writable, writes, writeError, writeOrder, disk>>
  /\ UNCHANGED <<files, rpc, reads, readValues, readResult, readOrder>>
  /\ UNCHANGED <<codecVars, txVars, cmVars>>

\* ensureDir settles: a failure rejects with the wrapped error, a success
\* runs the whole loop and reaches the await of Promise.all.
EnsureDirSettle ==
  /\ fmt = "xliff" /\ wpc = "ensureDir"
  /\ IF ~dirOk
     THEN wpc' = "rejected" /\ writeError' = DirError(ErrDir, XliffDir) /\ writes' = writes
     ELSE /\ writes' = IssueWrites(targetLocales, writable)
          /\ wpc' = IF targetLocales = <<>> THEN "resolved" ELSE "writing"
          /\ writeError' = writeError
  /\ UNCHANGED <<targetLocales, dirOk, writable, writeOrder, disk>>
  /\ UNCHANGED <<files, rpc, reads, readValues, readResult, readOrder>>
  /\ UNCHANGED <<codecVars, txVars, cmVars>>

\* The writeFile of locale i settles; its .catch turns a failure into a
\* KnownError; Promise.all, and with it writeOutput, settles if this decides it.
WriteSettle(i) ==
  /\ fmt = "xliff" /\ writes[i] = "pending"
  /\ LET states == [writes EXCEPT ![i] = IF writable[i] THEN "fulfilled" ELSE "rejected"]
     IN /\ writes' = states
        /\ writeOrder' = Append(writeOrder, i)
        /\ disk' = IF writable[i]
                   THEN [disk EXCEPT ![i] =
                           encodeLocale(sourceMessages, targetLocales[i], TranslationsGet(i))]
                   ELSE disk
        /\ IF wpc = "writing" /\ PromiseAll(states) = "rejected"
           THEN /\ wpc' = "rejected"
                /\ writeError' = FileError(ErrFile, XliffPath(targetLocales[i]))
           ELSE IF wpc = "writing" /\ PromiseAll(states) = "resolved"
           THEN wpc' = "resolved" /\ writeError' = writeError
           ELSE UNCHANGED <<wpc, writeError>>
  /\ UNCHANGED <<targetLocales, dirOk, writable>>
  /\ UNCHANGED <<files, rpc, reads, readValues, readResult, readOrder>>
  /\ UNCHANGED <<codecVars, txVars, cmVars>>

\* XlbFormatter.writeOutput builds and serializes the document, and runs up to
\* the await of fsExtra.ensureDir.
XlbWriteOutputCall ==
  /\ fmt = "xlb" /\ wpc = "idle"
  /\ xmlStr' = XlbSerialize(sourceMessages)
  /\ wpc' = "ensureDir"
  /\ UNCHANGED <<cpc, sourceMessages, targetLocale, targetMessages, fmt, docIn, bundle>>
  /\ UNCHANGED <<targetLocales, dirOk, writable, writes, writeError, writeOrder, disk>>
  /\ UNCHANGED <<files, rpc, reads, readValues, readResult, readOrder>>
  /\ UNCHANGED <<txVars, cmVars>>

\* ensureDir settles: a failure rejects with the wrapped error, a success
\* reaches the await of writeFile.
XlbEnsureDirSettle ==
  /\ fmt = "xlb" /\ wpc = "ensureDir"
  /\ IF ~dirOk
     THEN /\ wpc' = "rejected" /\ writes' = writes
          /\ writeError' = DirError(ErrXlbDir, dirname(XlbFilePath))
     ELSE wpc' = "writing" /\ writes' = <<"pending">> /\ writeError' = writeError
  /\ UNCHANGED <<targetLocales, dirOk, writable, writeOrder, disk>>
  /\ UNCHANGED <<files, rpc, reads, readValues, readResult, readOrder>>
  /\ UNCHANGED <<codecVars, txVars, cmVars>>

\* writeFile settles, and with it writeOutput.
XlbWriteFileSettle ==
  /\ fmt = "xlb" /\ wpc = "writing"
  /\ writeOrder' = Append(writeOrder, 1)
  /\ IF writable[1]
     THEN /\ writes' = <<"fulfilled">> /\ disk' = <<xmlStr>>
          /\ wpc' = "resolved" /\ writeError' = writeError
     ELSE /\ writes' = <<"rejected">> /\ disk' = disk
          /\ wpc' = "rejected" /\ writeError' = FileError(ErrXlbFile, XlbFilePath)
  /\ UNCHANGED <<targetLocales, dirOk, writable>>
  /\ UNCHANGED <<files, rpc, reads, readValues, readResult, readOrder>>
  /\ UNCHANGED <<codecVars, txVars, cmVars>>

NextWrite ==
  \/ WriteOutputCall
  \/ EnsureDirSettle
  \/ \E i \in DOMAIN writes : WriteSettle(i)
  \/ XlbWriteOutputCall
  \/ XlbEnsureDirSettle
  \/ XlbWriteFileSettle

SpecWrite == InitWriteOutput /\ [][NextWrite]_vars

-----------------------------------------------------------------------------
(* The TypeScript AST the transformer rewrites.  Every node has the same   *)
(* fields: text (the characters of a literal, a name, an identifier),      *)
(* parts (the literal texts of a template, the parameter names of an arrow *)
(* function) and kids (the child nodes that a visit reaches).              *)

StringLiteral(text) == Node("str", text, <<>>, <<>>)
Identifier(text) == Node("ident", text, <<>>, <<>>)
\* A NoSubstitutionTemplateLiteral (no expression) or a TemplateExpression:
\* head, then one span (expression, literal) per expression.
TemplateLiteral(parts, expressions) == Node("tpl", <<>>, parts, expressions)
ArrowFunction(params, body) == Node("arrow", <<>>, params, <<body>>)
CallExpression(callee, arguments) == Node(callee, <<>>, <<>>, arguments)
ImportDeclaration(module) == Node("import", module, <<>>, <<>>)
\* sourceFile.fileName of the one file of the program.
SourceFileName == <<"a", ".", "t", "s">>
SourceFileNode(statements) == Node("file", SourceFileName, <<>>, statements)
\* {id: ..., args: [...]}: an absent id is the empty text, parts tells
\* whether args is there.
OptionsLiteral(id, hasArgs, args) ==
  Node("options", id, IF hasArgs THEN << <<"a", "r", "g", "s">> >> ELSE <<>>, args)
MsgCall(templateArg, optionsArg) == Node("msg", <<>>, <<>>, <<templateArg>> \o optionsArg)
\* A reference to the LOCALE_STATUS_EVENT export of the library.
StatusEventRef == Node("LOCALE_STATUS_EVENT", <<>>, <<>>, <<>>)
\* {getLocale: () => "<locale>"}
GetLocaleLiteral(locale) == Node("getLocale", locale, <<>>, <<>>)

\* What a visitor returns to remove a node, and a thrown error: its text is
\* the message, its parts are the values interpolated into the message.
Undefined == Node("undefined", <<>>, <<>>, <<>>)
Thrown(message) == Node("error", <<message>>, <<>>, <<>>)
IsThrown(node) == node.kind = "error"
AnyThrown(nodes) == \E i \in DOMAIN nodes : IsThrown(nodes[i])
FirstThrown(nodes) ==
  nodes[CHOOSE i \in DOMAIN nodes :
          IsThrown(nodes[i]) /\ \A j \in 1..(i - 1) : ~IsThrown(nodes[j])]

\* A string item of the fragments recursivelyFlattenTemplate returns.
TextFragment(text) == Node("text", text, <<>>, <<>>)

LitLocalizeModule == <<"@", "l", "i", "t">>
StatusEventValue ==
  <<"l", "i", "t", "-", "l", "o", "c", "a", "l", "i", "z", "e", "-",
    "s", "t", "a", "t", "u", "s">>

\* ---- program-analysis.ts and typescript.ts, as the transformer uses them

isMsgCall(node) == node.kind = "msg"
isLitTemplate(node) == node.kind = "html"
isTemplateLiteral(node) == node.kind = "tpl"
isTemplateExpression(node) == node.kind = "tpl" /\ node.kids # <<>>

\* The template, its richness flag and the parameter names of a msg call's
\* first argument.
RECURSIVE extractTemplate(_)
extractTemplate(templateArg) ==
  CASE templateArg.kind = "str" ->
         [error |-> FALSE, template |-> templateArg, isLitTemplate |-> FALSE,
          hasParams |-> FALSE, params |-> <<>>]
    [] templateArg.kind = "tpl" ->
         [error |-> FALSE, template |-> templateArg, isLitTemplate |-> FALSE,
          hasParams |-> FALSE, params |-> <<>>]
    [] templateArg.kind = "html" ->
         [error |-> FALSE, template |-> templateArg.kids[1], isLitTemplate |-> TRUE,
          hasParams |-> FALSE, params |-> <<>>]
    [] templateArg.kind = "arrow" /\ templateArg.kids[1].kind # "arrow" ->
         [extractTemplate(templateArg.kids[1]) EXCEPT
            !.hasParams = TRUE, !.params = templateArg.parts]
    [] OTHER ->
         [error |-> TRUE, template |-> Undefined, isLitTemplate |-> FALSE,
          hasParams |-> FALSE, params |-> <<>>]

extractOptions(call) ==
  IF Len(call.kids) < 2
  THEN [id |-> <<>>, hasArgs |-> FALSE, args |-> <<>>]
  ELSE [id |-> call.kids[2].text, hasArgs |-> call.kids[2].parts # <<>>,
        args |-> call.kids[2].kids]

\* A deterministic function of the template's shape and of the richness flag.
generateMsgIdFromAstNode(template, isLit) ==
  (IF isLit THEN <<"h">> ELSE <<"s">>)
    \o (IF template.kind = "str" THEN template.text
        ELSE JoinWith(template.parts, <<"$">>))

\* The backslash and the backtick characters.
Backslash == "bsl"
Backtick == "btk"

\* Backslash, backtick and dollar get a backslash in front.
RECURSIVE escapeStringToEmbedInTemplateLiteral(_)
escapeStringToEmbedInTemplateLiteral(unescaped) ==
  IF unescaped = <<>> THEN <<>>
  ELSE (IF Head(unescaped) \in {Backslash, Backtick, "$"}
        THEN <<Backslash, Head(unescaped)>> ELSE <<Head(unescaped)>>)
       \o escapeStringToEmbedInTemplateLiteral(Tail(unescaped))

\* ---- transform.ts

tagLit(template) == Node("html", <<>>, <<>>, <<template>>)

\* The expression the TypeScript parser makes of the text between ${ and }:
\* an identifier, or another expression when the text holds a call or a
\* property access.
ParsedExpression(text) ==
  IF \A i \in DOMAIN text : text[i] \notin {"(", ")", "."}
  THEN Identifier(text)
  ELSE Node("expr", text, <<>>, <<>>)

\* The TypeScript parser on `<body>`: an escape yields the escaped character,
\* ${...} an expression, a bare backtick ends the literal early, which no
\* check of the function lets through.
RECURSIVE ScanTemplateBody(_, _, _, _, _)
ScanTemplateBody(body, i, textBuf, parts, expressions) ==
  IF i > Len(body) THEN TemplateLiteral(Append(parts, textBuf), expressions)
  ELSE IF body[i] = Backslash
  THEN ScanTemplateBody(body, i + 2, Append(textBuf, body[i + 1]), parts, expressions)
  ELSE IF body[i] = Backtick
  THEN Thrown("Internal error: expected template literal expression")
  ELSE IF body[i] = "$" /\ i < Len(body) /\ body[i + 1] = "{"
  THEN LET close == CHOOSE j \in (i + 2)..Len(body) :
                      body[j] = "}" /\ \A k \in (i + 2)..(j - 1) : body[k] # "}"
       IN ScanTemplateBody(body, close + 1, <<>>, Append(parts, textBuf),
                           Append(expressions, ParsedExpression(SubSeq(body, i + 2, close - 1))))
  ELSE ScanTemplateBody(body, i + 1, Append(textBuf, body[i]), parts, expressions)

parseStringAsTemplateLiteral(templateLiteralBody) ==
  ScanTemplateBody(templateLiteralBody, 1, <<>>, <<>>, <<>>)

\* The loop without `textBuf = []` after a span.
RECURSIVE MakeTemplateLoopKeepingText(_, _, _, _, _)
MakeTemplateLoopKeepingText(fragments, i, textBuf, parts, expressions) ==
  IF i = 0 THEN TemplateLiteral(<<textBuf>> \o parts, expressions)
  ELSE IF fragments[i].kind = "text"
  THEN MakeTemplateLoopKeepingText(fragments, i - 1, fragments[i].text \o textBuf,
                                   parts, expressions)
  ELSE MakeTemplateLoopKeepingText(fragments, i - 1, textBuf, <<textBuf>> \o parts,
                                   <<fragments[i]>> \o expressions)

\* The loop of makeTemplateLiteral, from the last fragment to the first.
RECURSIVE MakeTemplateLoop(_, _, _, _, _)
MakeTemplateLoop(fragments, i, textBuf, parts, expressions) ==
  IF i = 0 THEN TemplateLiteral(<<textBuf>> \o parts, expressions)
  ELSE IF fragments[i].kind = "text"
  THEN MakeTemplateLoop(fragments, i - 1, fragments[i].text \o textBuf, parts, expressions)
  ELSE MakeTemplateLoop(fragments, i - 1, <<>>, <<textBuf>> \o parts,
                        <<fragments[i]>> \o expressions)

makeTemplateLiteral(fragments) ==
  MakeTemplateLoop(fragments, Len(fragments), <<>>, <<>>, <<>>)

\* A map in which every parameter name holds the first argument.
ParamValuesGetFirst(paramNames, args, ident) ==
  IF \E i \in DOMAIN paramNames : paramNames[i] = ident /\ args # <<>>
  THEN <<args[1]>> ELSE <<>>

\* paramValues.get(ident) after the loop of set(paramNames[i], options.args[i]).
ParamValuesGet(paramNames, args, ident) ==
  LET set == {i \in DOMAIN paramNames : paramNames[i] = ident} IN
  IF set = {} THEN <<>>
  ELSE LET last == CHOOSE i \in set : \A j \in set : j <= i IN
       IF last <= Len(args) THEN <<args[last]>> ELSE <<>>

SubstituteSpan(expression, paramNames, args) ==
  IF expression.kind # "ident" THEN Thrown("Expected expression to be identifier")
  ELSE LET value == ParamValuesGet(paramNames, args, expression.text) IN
       IF value = <<>> THEN Thrown("No value provided") ELSE value[1]

substituteIdentsInExpressions(template, paramNames, args) ==
  LET spans == [i \in DOMAIN template.kids |->
                  SubstituteSpan(template.kids[i], paramNames, args)]
  IN IF AnyThrown(spans) THEN FirstThrown(spans)
     ELSE TemplateLiteral(template.parts, spans)

\* A lookup that does not compare identifiers.
translationsGetAny(translations, id) ==
  IF translations.messages = <<>> THEN <<>>
  ELSE <<translations.messages[Len(translations.messages)]>>

\* A Map in which a name keeps the first message set for it.
translationsGetFirst(translations, id) ==
  LET named == {i \in DOMAIN translations.messages : translations.messages[i].name = id}
  IN IF named = {} THEN <<>>
     ELSE <<translations.messages[CHOOSE i \in named : \A j \in named : i <= j]>>

\* translations.get(id) on the Map transformOutput fills message by message.
translationsGet(translations, id) == makeMessageIdMapGet(translations.messages, id)

\* contents.map(...).join('')
RECURSIVE TemplateLiteralBody(_)
TemplateLiteralBody(contents) ==
  IF contents = <<>> THEN <<>>
  ELSE (IF Head(contents).ph THEN Head(contents).s
        ELSE escapeStringToEmbedInTemplateLiteral(Head(contents).s))
       \o TemplateLiteralBody(Tail(contents))

\* options.id ?? generateMsgIdFromAstNode(template, isLitTagged)
\* An identifier that is always derived from the template, id option or not.
MsgIdIgnoringOption(call) ==
  generateMsgIdFromAstNode((extractTemplate(call.kids[1])).template,
                           (extractTemplate(call.kids[1])).isLitTemplate)

\* Line 277: options.id ?? generateMsgIdFromAstNode(template, isLitTagged)
MsgId(call) ==
  LET templateResult == extractTemplate(call.kids[1])
      options == extractOptions(call)
  IN IF options.id # <<>> THEN options.id
     ELSE generateMsgIdFromAstNode(templateResult.template, templateResult.isLitTemplate)

\* subsume() of recursivelyFlattenTemplate accepts the expression.
CanSubsume(expression, isLit) ==
  \/ expression.kind = "str"
  \/ isTemplateLiteral(expression)
  \/ isLit /\ isLitTemplate(expression)

RECURSIVE visitNode(_, _)
RECURSIVE recursivelyFlattenTemplate(_, _, _)
RECURSIVE FlattenSpans(_, _, _, _)
RECURSIVE VisitChildren(_, _)

\* A subsume() that takes an html-tagged template into any parent.
PushedFragmentsRichAnywhere(visited, isLit, ctx) ==
  CASE visited.kind = "str" -> <<TextFragment(visited.text)>>
    [] isTemplateLiteral(visited) -> recursivelyFlattenTemplate(visited, FALSE, ctx)
    [] isLitTemplate(visited) -> recursivelyFlattenTemplate(visited.kids[1], TRUE, ctx)
    [] OTHER -> <<visited>>

\* What the two subsume() attempts on a span's expression push, the
\* expression being the visited one when the first attempt failed.
PushedFragments(visited, isLit, ctx) ==
  CASE visited.kind = "str" -> <<TextFragment(visited.text)>>
    [] isTemplateLiteral(visited) -> recursivelyFlattenTemplate(visited, FALSE, ctx)
    [] isLit /\ isLitTemplate(visited) ->
         recursivelyFlattenTemplate(visited.kids[1], TRUE, ctx)
    [] OTHER -> <<visited>>

\* The loop over template.templateSpans, from span i on.
FlattenSpans(template, i, isLit, ctx) ==
  IF i > Len(template.kids) THEN <<>>
  ELSE PushedFragments(IF CanSubsume(template.kids[i], isLit) THEN template.kids[i]
                       ELSE visitNode(template.kids[i], ctx),
                       isLit, ctx)
         \o <<TextFragment(template.parts[i + 1])>>
         \o FlattenSpans(template, i + 1, isLit, ctx)

recursivelyFlattenTemplate(template, isLit, ctx) ==
  IF template.kids = <<>> THEN <<TextFragment(template.parts[1])>>
  ELSE <<TextFragment(template.parts[1])>> \o FlattenSpans(template, 1, isLit, ctx)

\* A child that was removed leaves nothing in its parent.
VisitedChild(visited) == IF visited = Undefined THEN <<>> ELSE <<visited>>

\* ts.visitEachChild: each child is replaced by its visit.
VisitChildren(kids, ctx) ==
  IF kids = <<>> THEN <<>>
  ELSE VisitedChild(visitNode(Head(kids), ctx)) \o VisitChildren(Tail(kids), ctx)

\* The template a call site is replaced by, once flattened: lines 335-338,
\* and line 141 for an html-tagged template.
MakeFlattened(fragments, isLitTagged) ==
  IF AnyThrown(fragments) THEN FirstThrown(fragments)
  ELSE IF isLitTagged THEN tagLit(makeTemplateLiteral(fragments))
  ELSE makeTemplateLiteral(fragments)

\* replaceMsgCall from line 320 on, the template being the substituted one.
ReplaceBy(template, isLitTagged, ctx) ==
  IF IsThrown(template) THEN template
  ELSE IF template.kind = "str"
  THEN IF isLitTagged
       THEN Thrown("Internal error: string literal cannot be html-tagged")
       ELSE template
  ELSE MakeFlattened(recursivelyFlattenTemplate(template, isLitTagged, ctx), isLitTagged)

\* Lines 307-318: the arguments of the call replace the parameters.
SubstituteArgs(templateArg, template, paramNames, options) ==
  IF IsThrown(template) THEN template
  ELSE IF templateArg.kind = "arrow" /\ isTemplateExpression(template)
  THEN IF ~options.hasArgs
       THEN Thrown("Internal error, expected paramNames and options.args to be defined")
       ELSE substituteIdentsInExpressions(template, paramNames, options.args)
  ELSE template

\* Lines 281-298: the translation of the message, when there is one.
TranslatedTemplate(template, translation) ==
  IF translation # <<>>
  THEN parseStringAsTemplateLiteral(TemplateLiteralBody(translation[1].contents))
  ELSE template

TranslationOf(call, ctx) ==
  IF ctx.translations.defined THEN translationsGet(ctx.translations, MsgId(call))
  ELSE <<>>

ReplaceExtracted(call, templateResult, ctx) ==
  IF templateResult.error THEN Thrown("Error: extractTemplate")
  ELSE ReplaceBy(SubstituteArgs(call.kids[1],
                                TranslatedTemplate(templateResult.template,
                                                   TranslationOf(call, ctx)),
                                templateResult.params, extractOptions(call)),
                 templateResult.isLitTemplate, ctx)

replaceMsgCall(call, ctx) == ReplaceExtracted(call, extractTemplate(call.kids[1]), ctx)

\* The node with its visited children, unless a visit threw.
WithChildren(node, children) ==
  IF AnyThrown(children) THEN FirstThrown(children)
  ELSE [node EXCEPT !.kids = children]

\* Transformer.visitNode; ctx holds the translations and the locale of the
\* Transformer, a thrown error is returned as a node and ends the visit.
visitNode(node, ctx) ==
  IF isMsgCall(node) THEN replaceMsgCall(node, ctx)
  ELSE IF isLitTemplate(node)
  THEN MakeFlattened(recursivelyFlattenTemplate(node.kids[1], TRUE, ctx), TRUE)
  ELSE IF node.kind = "import" /\ node.text = LitLocalizeModule THEN Undefined
  ELSE IF node.kind = "configureTransformLocalization" THEN GetLocaleLiteral(ctx.locale)
  ELSE IF node.kind = "configureLocalization"
  THEN Thrown("Cannot use configureLocalization in transform mode")
  ELSE IF node.kind = "Localized"
  THEN IF Len(node.kids) # 1
       THEN Thrown("Expected Localized mixin call to have one argument")
       ELSE node.kids[1]
  ELSE IF node.kind = "LOCALE_STATUS_EVENT" THEN StringLiteral(StatusEventValue)
  ELSE WithChildren(node, VisitChildren(node.kids, ctx))

\* litLocalizeTransform(translations, locale, program) applied to a node.
litLocalizeTransform(translations, locale, node) ==
  visitNode(node, [translations |-> translations, locale |-> locale])

-----------------------------------------------------------------------------
(* The nodes and the lookups the transformer is run on.                    *)

\* msg('Wo', {id: 'w'})
MsgWorld ==
  MsgCall(StringLiteral(<<"W", "o">>), <<OptionsLiteral(<<"w">>, FALSE, <<>>)>>)
\* msg(html`<b>H</b>`, {id: 'g'})
MsgRich ==
  MsgCall(tagLit(TemplateLiteral(<< <<"<", "b", ">", "H", "<", "/", "b", ">">> >>, <<>>)),
          <<OptionsLiteral(<<"g">>, FALSE, <<>>)>>)
\* msg(`Hi`)
MsgNoId == MsgCall(TemplateLiteral(<< <<"H", "i">> >>, <<>>), <<>>)
\* msg(y)
MsgNotTemplate == MsgCall(Identifier(<<"y">>), <<>>)
\* msg((x) => html`Hi ${x}`, {id: 'p', args: [e]})
MsgHi(e) ==
  MsgCall(ArrowFunction(<< <<"x">> >>,
                        tagLit(TemplateLiteral(<< <<"H", "i", " ">>, <<>> >>,
                                               <<Identifier(<<"x">>)>>))),
          <<OptionsLiteral(<<"p">>, TRUE, <<e>>)>>)
\* msg((x) => `Hi ${x}`, {args: [e]})
MsgParam(e) ==
  MsgCall(ArrowFunction(<< <<"x">> >>,
                        TemplateLiteral(<< <<"H", "i", " ">>, <<>> >>,
                                        <<Identifier(<<"x">>)>>)),
          <<OptionsLiteral(<<>>, TRUE, <<e>>)>>)

LeafExprs ==
  { StringLiteral(<<"W">>), Identifier(<<"y">>), StatusEventRef,
    CallExpression("configureTransformLocalization", <<>>),
    CallExpression("configureTransformLocalization", <<Identifier(<<"y">>)>>),
    CallExpression("configureLocalization", <<>>),
    CallExpression("Localized", <<>>),
    CallExpression("Localized", <<Identifier(<<"y">>), Identifier(<<"y">>)>>),
    MsgWorld, MsgRich, MsgNoId, MsgNotTemplate }

\* Localized(e) and a parameterized message with e as its argument ...
FewAround(e) == { CallExpression("Localized", <<e>>), MsgHi(e) }
\* ... and html`<p>${e}`, `a${e}b`, f(e), a plain parameterized message.
AllAround(e) ==
  FewAround(e) \cup
  { tagLit(TemplateLiteral(<< <<"<", "p", ">">>, <<>> >>, <<e>>)),
    TemplateLiteral(<< <<"a">>, <<"b">> >>, <<e>>),
    CallExpression("call", <<e>>),
    MsgParam(e) }

RECURSIVE InnerExprs(_)
InnerExprs(depth) ==
  IF depth <= 0 THEN LeafExprs
  ELSE InnerExprs(depth - 1) \cup UNION {FewAround(e) : e \in InnerExprs(depth - 1)}

Exprs ==
  InnerExprs(MaxDepth - 1) \cup UNION {AllAround(e) : e \in InnerExprs(MaxDepth - 1)}

SourceFiles ==
  { SourceFileNode(<<ImportDeclaration(LitLocalizeModule), ImportDeclaration(<<"o">>), e>>) :
      e \in InnerExprs(MaxDepth - 1) }

\* msg('Hi')
MsgPlainHi == MsgCall(StringLiteral(<<"H", "i">>), <<>>)

\* Two call sites in one file: with and without an id, with the same and
\* with different templates, with the same template and different arguments.
CallSites ==
  { MsgNoId, MsgPlainHi, MsgWorld, MsgHi(Identifier(<<"y">>)),
    MsgParam(StringLiteral(<<"W">>)), MsgParam(Identifier(<<"y">>)) }

TwoCallFiles == { SourceFileNode(<<c, d>>) : c, d \in CallSites }

\* msg((x, z) => `${x}&${z}`, {id: 't', args: [...]})
MsgTwo(args) ==
  MsgCall(ArrowFunction(<< <<"x">>, <<"z">> >>,
                        TemplateLiteral(<< <<>>, <<"&">>, <<>> >>,
                                        <<Identifier(<<"x">>), Identifier(<<"z">>)>>)),
          <<OptionsLiteral(<<"t">>, TRUE, args)>>)
\* msg((x, z) => `${x}&${z}`, {id: 't'})
MsgTwoNoArgs ==
  [MsgTwo(<<>>) EXCEPT !.kids[2] = OptionsLiteral(<<"t">>, FALSE, <<>>)]
\* msg((x) => `Hi ${x.y}`, {id: 't', args: [a]})
MsgSlotNotParam ==
  MsgCall(ArrowFunction(<< <<"x">> >>,
                        TemplateLiteral(<< <<"H", "i", " ">>, <<>> >>,
                                        <<Node("expr", <<"x", ".", "y">>, <<>>, <<>>)>>)),
          <<OptionsLiteral(<<"t">>, TRUE, <<Identifier(<<"a">>)>>)>>)

\* Call sites with two parameters: with both arguments, with a string as an
\* argument, with one argument too few, with none, without args.
ParamCallSites ==
  { MsgTwo(<<Identifier(<<"a">>), Identifier(<<"b">>)>>),
    MsgTwo(<<Identifier(<<"a">>), StringLiteral(<<"W">>)>>),
    MsgTwo(<<Identifier(<<"a">>), Identifier(<<"b">>), Identifier(<<"c">>)>>),
    MsgTwo(<<Identifier(<<"a">>)>>),
    MsgTwo(<<>>),
    MsgTwoNoArgs,
    MsgSlotNotParam }

\* html`<i>${msg('Wo', {id: 'w'})}</i>`
RichWithCall ==
  tagLit(TemplateLiteral(<< <<"<", "i", ">">>, <<"<", "/", "i", ">">> >>, <<MsgWorld>>))

\* Templates written inside templates: `a${`c${y}d`}b`, `a${html`...`}b`,
\* html`<p>${html`...`}`, html`<p>${`c${y}d`}`, and `${y}-${'W'}${f(y)}`.
NestedTemplates ==
  { TemplateLiteral(<< <<"a">>, <<"b">> >>,
                    <<TemplateLiteral(<< <<"c">>, <<"d">> >>, <<Identifier(<<"y">>)>>)>>),
    TemplateLiteral(<< <<"a">>, <<"b">> >>, <<RichWithCall>>),
    tagLit(TemplateLiteral(<< <<"<", "p", ">">>, <<>> >>, <<RichWithCall>>)),
    tagLit(TemplateLiteral(<< <<"<", "p", ">">>, <<>> >>,
                           <<TemplateLiteral(<< <<"c">>, <<"d">> >>,
                                             <<Identifier(<<"y">>)>>)>>)),
    TemplateLiteral(<< <<>>, <<"-">>, <<>>, <<>> >>,
                    <<Identifier(<<"y">>), StringLiteral(<<"W">>),
                      CallExpression("call", <<Identifier(<<"y">>)>>)>>) }

Nodes ==
  Exprs \cup SourceFiles \cup TwoCallFiles \cup ParamCallSites \cup NestedTemplates

TxMessage(name, contents) == [name |-> name, contents |-> contents]

FewTxMessages ==
  { TxMessage(<<"w">>, <<TextRun(<<"M", Backtick, "$", Backslash>>)>>) }

TxMessages ==
  FewTxMessages \cup
  { TxMessage(<<"w">>, <<Placeholder(<<"$", "{", "e", "}">>)>>),
    TxMessage(<<"g">>, <<Placeholder(<<"<", "b", ">">>), TextRun(<<"O">>),
                         Placeholder(<<"<", "/", "b", ">">>)>>),
    TxMessage(<<"g">>, <<TextRun(<<"O">>), Placeholder(<<"<", "i", ">">>)>>),
    TxMessage(<<"p">>, <<TextRun(<<"H", "o", "l", "a", " ">>),
                         Placeholder(<<"$", "{", "x", "}">>)>>),
    TxMessage(<<"p">>, <<TextRun(<<"H", "o", "l", "a">>)>>),
    TxMessage(<<"p">>, <<Placeholder(<<"$", "{", "z", "}">>)>>),
    TxMessage(<<"t">>, <<Placeholder(<<"$", "{", "z", "}">>), TextRun(<<"y">>),
                         Placeholder(<<"$", "{", "x", "}">>)>>),
    TxMessage(<<"t">>, <<Placeholder(<<"$", "{", "x", "}">>),
                         Placeholder(<<"$", "{", "x", "}">>)>>),
    TxMessage(<<"t">>, <<Placeholder(<<"$", "{", "q", "}">>)>>),
    TxMessage(<<"t">>, <<Placeholder(<<"$", "{", "x", "(", ")", "}">>)>>),
    TxMessage(<<"t">>, <<TextRun(<<"T">>)>>),
    TxMessage(MsgId(MsgNoId), <<TextRun(<<"H", "o">>)>>),
    TxMessage(MsgId(MsgParam(StringLiteral(<<"W">>))),
              <<Placeholder(<<"$", "{", "x", "}">>), TextRun(<<"!">>)>>) }

Lookups ==
  {NoLookup} \cup
  {[defined |-> TRUE, messages |-> m] : m \in ListsAround(TxMessages, FewTxMessages, MaxMsgs)}

InitTransform ==
  /\ IdleCodec /\ IdleRead /\ IdleWrite /\ targetLocales = <<>> /\ IdleEmit
  /\ IdleClassMap /\ IdleMake
  /\ txNode \in Nodes
  /\ txTranslations \in Lookups
  /\ txLocale = IF txTranslations.defined THEN Locale(1) ELSE SourceLocale
  /\ txOut = NotRun /\ txPlain = NotRun
  /\ txIsLit = FALSE /\ txFlat1 = NotRun /\ txFlat2 = NotRun

\* The transformer of the locale visits the node.
Transform ==
  /\ txOut = NotRun
  /\ txOut' = litLocalizeTransform(txTranslations, txLocale, txNode)
  /\ UNCHANGED <<txNode, txTranslations, txLocale, txPlain, txIsLit, txFlat1, txFlat2>>
  /\ UNCHANGED <<codecVars, ioVars, emitVars, mkVars, cmVars>>

\* A transformer constructed without translations visits the same node.
TransformWithoutLookup ==
  /\ txOut # NotRun /\ txPlain = NotRun
  /\ txPlain' = litLocalizeTransform(NoLookup, txLocale, txNode)
  /\ UNCHANGED <<txNode, txTranslations, txLocale, txOut, txIsLit, txFlat1, txFlat2>>
  /\ UNCHANGED <<codecVars, ioVars, emitVars, mkVars, cmVars>>

FlattenAndMake(template, isLit) ==
  MakeFlattened(recursivelyFlattenTemplate(
                  template, isLit,
                  [translations |-> txTranslations, locale |-> txLocale]),
                FALSE)

\* makeTemplateLiteral(recursivelyFlattenTemplate(T, isLit)) on the template
\* of the node ...
FlattenOnce ==
  /\ txPlain # NotRun /\ txFlat1 = NotRun
  /\ txNode.kind \in {"tpl", "html"}
  /\ \E isLit \in BOOLEAN :
       /\ txIsLit' = isLit
       /\ txFlat1' = FlattenAndMake(IF txNode.kind = "tpl" THEN txNode ELSE txNode.kids[1],
                                    isLit)
  /\ UNCHANGED <<txNode, txTranslations, txLocale, txOut, txPlain, txFlat2>>
  /\ UNCHANGED <<codecVars, ioVars, emitVars, mkVars, cmVars>>

\* ... and on its result.
FlattenAgain ==
  /\ txFlat1 # NotRun /\ ~IsThrown(txFlat1) /\ txFlat2 = NotRun
  /\ txFlat2' = FlattenAndMake(txFlat1, txIsLit)
  /\ UNCHANGED <<txNode, txTranslations, txLocale, txOut, txPlain, txIsLit, txFlat1>>
  /\ UNCHANGED <<codecVars, ioVars, emitVars, mkVars, cmVars>>

NextTransform == Transform \/ TransformWithoutLookup \/ FlattenOnce \/ FlattenAgain

SpecTransform == InitTransform /\ [][NextTransform]_vars

-----------------------------------------------------------------------------
(* transformOutput (transform.ts 45-79): one emit of the program per       *)
(* locale, the source locale first, each into its own directory.           *)

\* transformConfig.localeCodesModule: not configured, or written by
\* writeLocaleCodesModule, which succeeds or throws.
LocaleCodesModules == {"none", "written", "failed"}

\* opts.outDir before the call: not set, or a directory.
OutDirs == {<<>>, <<<<"o", "u", "t">>>>}

\* opts.outDir || '.'
OutRootOf(outDirOption) == IF outDirOption = <<>> THEN <<<<".">>>> ELSE outDirOption

\* path.normalize on the segments of a relative path: '.' segments go.
RECURSIVE normalize(_)
normalize(path) ==
  IF path = <<>> THEN <<>>
  ELSE (IF Head(path) = <<".">> THEN <<>> ELSE <<Head(path)>>) \o normalize(Tail(path))

\* pathLib.join(outRoot, '/', locale)
pathJoin(root, locale) == normalize(Append(root, locale))

\* [config.sourceLocale, ...config.targetLocales]
EmitLocales == <<SourceLocale>> \o targetLocales

\* A lookup filled with the messages of every locale of the map.
translationsOfAnyLocale(byLocale, locale) ==
  IF locale = SourceLocale THEN NoLookup
  ELSE [defined |-> TRUE,
        messages |-> IF DOMAIN byLocale = {} THEN <<>>
                     ELSE byLocale[CHOOSE l \in DOMAIN byLocale :
                                     \A m \in DOMAIN byLocale : Len(byLocale[m]) <= Len(byLocale[l])]]

\* The translations of an iteration (transform.ts 67-73): undefined for the
\* source locale, else a Map filled, message by message, from
\* translationsByLocale.get(locale) || [].
translationsOf(byLocale, locale) ==
  IF locale = SourceLocale THEN NoLookup
  ELSE [defined |-> TRUE,
        messages |-> IF locale \in DOMAIN byLocale THEN byLocale[locale] ELSE <<>>]

\* The message lists of target locale i: each names its locale in its text.
\* Some lists hold two messages named w, alone or around a message named g.
LocaleMessages(i) ==
  LET m == TxMessage(<<"w">>, <<TextRun(<<"M">> \o DecimalString(i))>>)
      n == TxMessage(<<"w">>, <<TextRun(<<"N">> \o DecimalString(i))>>)
      g == TxMessage(<<"g">>, <<TextRun(<<"O">>)>>)
  IN { <<>>, <<m>>, <<m, n>>, <<n, m>>, <<m, g, n>>, <<g, n, m>> }

\* The maps over some of the target locales.
TranslationMaps(locales) ==
  UNION { {f \in [{locales[i] : i \in present} ->
                    UNION {LocaleMessages(i) : i \in DOMAIN locales}] :
             \A i \in present : f[locales[i]] \in LocaleMessages(i)} :
          present \in SUBSET DOMAIN locales }

\* The one source file of the program.
Programs ==
  { SourceFileNode(<<ImportDeclaration(LitLocalizeModule), e>>) :
      e \in {MsgWorld, CallExpression("configureTransformLocalization", <<>>),
             CallExpression("configureLocalization", <<>>)} }
  \cup { SourceFileNode(<<ImportDeclaration(LitLocalizeModule), MsgRich, MsgWorld>>) }

InitTransformOutput ==
  /\ IdleCodec /\ IdleRead /\ IdleWrite /\ IdleVisit /\ IdleClassMap /\ IdleMake
  /\ targetLocales \in LocaleLists
  /\ txNode \in Programs
  /\ translationsByLocale \in TranslationMaps(targetLocales)
  /\ optsOutDir \in OutDirs
  /\ outRoot = <<>> /\ emitted = <<>> /\ epc = "idle"

\* The call, up to the loop: the locale codes module if one is configured,
\* then the output root is read from the compiler options.
TransformOutputCall ==
  /\ epc = "idle"
  /\ \E localeCodesModule \in LocaleCodesModules :
       IF localeCodesModule = "failed"
       THEN epc' = "rejected" /\ outRoot' = outRoot
       ELSE epc' = "emitting" /\ outRoot' = OutRootOf(optsOutDir)
  /\ UNCHANGED <<translationsByLocale, optsOutDir, emitted>>
  /\ UNCHANGED <<txNode, txTranslations, txLocale, txOut, txPlain, txIsLit, txFlat1, txFlat2>>
  /\ UNCHANGED <<codecVars, ioVars, mkVars, cmVars>>

\* One iteration of the loop: the lookup of the locale, the directory of the
\* locale, and program.emit with the transformer of the locale; an error
\* thrown by the transformer ends transformOutput.
EmitLocale ==
  /\ epc = "emitting"
  /\ LET locale == EmitLocales[Len(emitted) + 1]
         translations == translationsOf(translationsByLocale, locale)
         output == litLocalizeTransform(translations, locale, txNode)
     IN /\ optsOutDir' = pathJoin(outRoot, locale)
        /\ IF IsThrown(output)
           THEN epc' = "rejected" /\ emitted' = emitted
           ELSE /\ emitted' = Append(emitted,
                                     [locale |-> locale, outDir |-> pathJoin(outRoot, locale),
                                      translations |-> translations, output |-> output])
                /\ epc' = IF Len(emitted) + 1 = Len(EmitLocales) THEN "resolved"
                          ELSE "emitting"
  /\ UNCHANGED <<translationsByLocale, outRoot>>
  /\ UNCHANGED <<txNode, txTranslations, txLocale, txOut, txPlain, txIsLit, txFlat1, txFlat2>>
  /\ UNCHANGED <<codecVars, ioVars, mkVars, cmVars>>

NextTransformOutput == TransformOutputCall \/ EmitLocale

SpecTransformOutput == InitTransformOutput /\ [][NextTransformOutput]_vars

-----------------------------------------------------------------------------
(* makeTemplateLiteral (transform.ts 516-543) on its own: any list of      *)
(* strings and expressions.                                                *)

\* The strings and the expressions a list is made of.
FragmentPool ==
  { TextFragment(<<>>), TextFragment(<<"a">>), TextFragment(<<"b">>),
    Identifier(<<"y">>), CallExpression("call", <<Identifier(<<"z">>)>>) }

InitMakeTemplate ==
  /\ IdleCodec /\ IdleRead /\ IdleWrite /\ targetLocales = <<>>
  /\ txNode = NotRun /\ IdleVisit /\ IdleEmit /\ IdleClassMap
  /\ fragmentList \in SeqsUpTo(FragmentPool, MaxFragments)
  /\ made = NotRun

MakeTemplate ==
  /\ made = NotRun
  /\ made' = makeTemplateLiteral(fragmentList)
  /\ UNCHANGED fragmentList
  /\ UNCHANGED <<txNode, txTranslations, txLocale, txOut, txPlain, txIsLit, txFlat1, txFlat2>>
  /\ UNCHANGED <<codecVars, ioVars, emitVars, cmVars>>

NextMakeTemplate == MakeTemplate

SpecMakeTemplate == InitMakeTemplate /\ [][NextMakeTemplate]_vars

-----------------------------------------------------------------------------
(* The classMap directive (class-map.ts): the first render gives the value *)
(* of the class attribute, later renders edit the element's classList.     *)

ClassNames == <<"foo", "bar", "constructor">>

\* The property names every object literal inherits from Object.prototype
\* (those among the names of the model); they are not enumerable.
InheritedNames == {"constructor"}

\* name in classInfo: an own or an inherited property.
In(name, info) == name \in DOMAIN info \/ name \in InheritedNames

\* The values of a ClassInfo property (string | boolean | number), as
\* written in the source.
ClassValues == {"true", "false", "0", "''", "'a'"}

\* !!value
Truthy(value) == value \notin {"false", "0", "''"}

\* The ClassInfo objects: some of the names, each with a value.
ClassInfos ==
  UNION { [{ClassNames[i] : i \in present} -> ClassValues] :
          present \in SUBSET DOMAIN ClassNames }

\* render(classInfo): Object.keys(classInfo).filter((key) => classInfo[key]),
\* from the i-th name on; joined by ' ', each is a token of the attribute.
RECURSIVE render(_, _)
render(info, i) ==
  IF i > Len(ClassNames) THEN <<>>
  ELSE (IF ClassNames[i] \in DOMAIN info /\ Truthy(info[ClassNames[i]])
        THEN <<ClassNames[i]>> ELSE <<>>)
       \o render(info, i + 1)

\* The tokens of the class attribute the part commits on the first render:
\* the static strings around the rendered value.
CommittedClassList(static, rendered) ==
  static \cup {rendered[i] : i \in DOMAIN rendered}

\* The first loop of update, lines 67-72: old classes that no longer apply.
RemoveOld(names, info) == {name \in names : In(name, info)}

\* The second loop of update, lines 75-88, on the names of classInfo from the
\* i-th on; state holds classList and previousClasses.
RECURSIVE AddOrRemove(_, _, _)
AddOrRemove(info, i, state) ==
  IF i > Len(ClassNames) THEN state
  ELSE LET name == ClassNames[i] IN
       IF name \notin DOMAIN info THEN AddOrRemove(info, i + 1, state)
       ELSE IF Truthy(info[name]) = (name \in state.previous)
       THEN AddOrRemove(info, i + 1, state)
       ELSE IF Truthy(info[name])
       THEN AddOrRemove(info, i + 1,
                        [list |-> state.list \cup {name},
                         previous |-> state.previous \cup {name}])
       ELSE AddOrRemove(info, i + 1,
                        [list |-> state.list \ {name},
                         previous |-> state.previous \ {name}])

InitClassMap ==
  /\ IdleCodec /\ IdleRead /\ IdleWrite /\ targetLocales = <<>>
  /\ txNode = NotRun /\ IdleVisit /\ IdleEmit /\ IdleMake
  /\ staticClasses \in SUBSET {ClassNames[i] : i \in DOMAIN ClassNames}
  /\ classInfo = <<>>
  /\ previousClasses = [defined |-> FALSE, names |-> {}]
  /\ classList = {} /\ renders = 0

\* update on the first render (lines 52-60): the truthy names are remembered
\* and the rendered string is returned, which the part commits.
FirstRender ==
  /\ ~previousClasses.defined
  /\ \E info \in ClassInfos :
       /\ classInfo' = info
       /\ previousClasses' =
            [defined |-> TRUE, names |-> {name \in DOMAIN info : Truthy(info[name])}]
       /\ classList' = CommittedClassList(staticClasses, render(info, 1))
  /\ renders' = 1
  /\ UNCHANGED staticClasses
  /\ UNCHANGED <<codecVars, ioVars, txVars>>

\* update on a later render (lines 62-89): classList is edited, noChange is
\* returned.
Update ==
  /\ previousClasses.defined /\ renders < MaxRenders
  /\ \E info \in ClassInfos :
       LET kept == RemoveOld(previousClasses.names, info)
           state == AddOrRemove(info, 1,
                      [list |-> classList \ (previousClasses.names \ kept),
                       previous |-> kept])
       IN /\ classInfo' = info
          /\ classList' = state.list
          /\ previousClasses' = [defined |-> TRUE, names |-> state.previous]
  /\ renders' = renders + 1
  /\ UNCHANGED staticClasses
  /\ UNCHANGED <<codecVars, ioVars, txVars>>

NextClassMap == FirstRender \/ Update

SpecClassMap == InitClassMap /\ [][NextClassMap]_vars

-----------------------------------------------------------------------------
(* Claims about the codecs.                                                *)

\* Contents up to re-segmentation of text: adjacent text runs merged, empty
\* text runs dropped, placeholders untouched.
RECURSIVE Canon(_)
Canon(contents) ==
  IF contents = <<>> THEN <<>>
  ELSE LET c == Head(contents)
           rest == Canon(Tail(contents))
       IN IF c.ph THEN <<c>> \o rest
          ELSE IF c.s = <<>> THEN rest
          ELSE IF rest # <<>> /\ ~rest[1].ph
               THEN <<TextRun(c.s \o rest[1].s)>> \o Tail(rest)
          ELSE <<c>> \o rest

SameMessages(got, want) ==
  /\ Len(got) = Len(want)
  /\ \A i \in 1..Len(want) :
       /\ got[i].name = want[i].name
       /\ Canon(got[i].contents) = Canon(want[i].contents)

RoundTripped(f) == cpc = "parsed" /\ fmt = f /\ ~docIn.onDisk

\* C1: the document the XLB writeOutput produces, parsed by parseXmb, gives a
\* Bundle of the source locale with one message per source message, in order,
\* with the same name and the same contents up to re-segmentation of text;
\* parsing does not fail.
C1_XlbRoundTrip ==
  RoundTripped("xlb") =>
    /\ bundle.ok
    /\ bundle.locale = SourceLocale
    /\ SameMessages(bundle.messages, sourceMessages)

NonEmptyPlaceholders(messages) ==
  \A i \in 1..Len(messages) : \A j \in 1..Len(messages[i].contents) :
    messages[i].contents[j].ph => messages[i].contents[j].s # <<>>

\* C1, amended: the XLB round trip holds for source messages whose
\* placeholder payloads are non-empty.
C1_XlbRoundTripNonEmptyPh ==
  (RoundTripped("xlb") /\ NonEmptyPlaceholders(sourceMessages)) =>
    /\ bundle.ok
    /\ bundle.locale = SourceLocale
    /\ SameMessages(bundle.messages, sourceMessages)

C1_Witness ==
  /\ RoundTripped("xlb") /\ NonEmptyPlaceholders(sourceMessages)
  /\ Len(sourceMessages) = 2
  /\ sourceMessages[1].contents =
       <<TextRun(<<"<", "&", "l", "t", ";">>), Placeholder(<<"<", "b", ">">>)>>
  /\ sourceMessages[2].contents = <<TextRun(<<"a">>), Placeholder(<<"<", "b", ">">>)>>
  /\ bundle.ok /\ Len(bundle.messages) = 2

\* The messages a translated XLIFF document stands for: per source message
\* with a translation, in source order, that translation.
RECURSIVE TranslatedUnits(_, _)
TranslatedUnits(sources, targets) ==
  IF sources = <<>> THEN <<>>
  ELSE makeMessageIdMapGet(targets, Head(sources).name)
       \o TranslatedUnits(Tail(sources), targets)

\* C2: encodeLocale(sourceMessages, L, translations) parsed by parseXlif gives
\* a Bundle of locale L with exactly one message per source message that has
\* a translation, in source order, with the translation's name and contents.
C2_XliffRoundTrip ==
  RoundTripped("xliff") =>
    /\ bundle.ok
    /\ bundle.locale = targetLocale
    /\ SameMessages(bundle.messages, TranslatedUnits(sourceMessages, targetMessages))

\* C2, amended: the XLIFF round trip holds for translations whose placeholder
\* payloads are non-empty.
C2_XliffRoundTripNonEmptyPh ==
  (RoundTripped("xliff") /\ NonEmptyPlaceholders(targetMessages)) =>
    /\ bundle.ok
    /\ bundle.locale = targetLocale
    /\ SameMessages(bundle.messages, TranslatedUnits(sourceMessages, targetMessages))

C2_Witness ==
  /\ RoundTripped("xliff") /\ NonEmptyPlaceholders(targetMessages)
  /\ Len(sourceMessages) = 2 /\ sourceMessages[1].name # sourceMessages[2].name
  /\ Len(targetMessages) = 1 /\ targetMessages[1].name = sourceMessages[2].name
  /\ targetMessages[1].contents =
       <<TextRun(<<"a", "&">>), Placeholder(<<"<", "b", ">">>)>>
  /\ bundle.ok /\ Len(bundle.messages) = 1

\* C7: a Bundle returned by a read path holds at most one message per
\* identifier, whatever the document.
C7_BundleUniqueness ==
  (cpc = "parsed" /\ bundle.ok) =>
    \A i, j \in 1..Len(bundle.messages) :
      bundle.messages[i].name = bundle.messages[j].name => i = j

\* C8: reading a document fails, with no Bundle, when the expected element is
\* absent or occurs more than once or has no non-empty locale attribute; a
\* Bundle that is returned has exactly that attribute's string as its locale,
\* and a document with one such element, a locale and no unit is read.
C8_MandatoryLocale ==
  (cpc = "parsed" /\ docIn.onDisk) =>
    /\ (docIn.roots # 1 \/ docIn.locale \in {"absent", "empty"}) =>
         (~bundle.ok /\ bundle.messages = <<>> /\ bundle.error # NoError)
    /\ bundle.ok => bundle.locale = LocaleAttrValue(docIn.locale)
    /\ (docIn.roots = 1 /\ docIn.locale \in {"es", "ES"} /\ docIn.units = <<>>) =>
         bundle.ok

C8_Witness ==
  /\ cpc = "parsed" /\ docIn.onDisk /\ fmt = "xliff"
  /\ docIn.roots = 2 /\ docIn.units # <<>>
  /\ ~bundle.ok

-----------------------------------------------------------------------------
(* Claims about readTranslations and writeOutput of the XLIFF formatter.   *)

Settled(states) == \A i \in DOMAIN states : states[i] \in {"fulfilled", "rejected"}

Readable == {i \in DOMAIN files : files[i].errno = "none"}

\* C9: a target locale whose file does not exist contributes no Bundle and
\* causes no failure: the read resolves exactly when no file is unreadable for
\* another reason or malformed, with one Bundle per existing file, and it is
\* rejected, without Bundles, when some file is.
C9_ReadTolerance ==
  LET bad == {i \in DOMAIN files :
                files[i].errno = "EACCES" \/ (files[i].errno = "none" /\ ~files[i].wellFormed)}
  IN /\ rpc = "resolved" =>
          /\ bad = {}
          /\ readResult.ok /\ readResult.error = NoError
          /\ Len(readResult.bundles) = Cardinality(Readable)
          /\ {b.locale : b \in {readResult.bundles[k] : k \in DOMAIN readResult.bundles}}
               = {targetLocales[i] : i \in Readable}
          /\ \A k \in DOMAIN readResult.bundles : readResult.bundles[k].ok
     /\ rpc = "rejected" =>
          /\ bad # {}
          /\ ~readResult.ok /\ readResult.bundles = <<>>
          /\ readResult.error \notin {NoError, "ENOENT", "null"}
     /\ (rpc # "idle" /\ Settled(reads)) =>
          /\ rpc \in {"resolved", "rejected"}
          /\ rpc = "resolved" <=> bad = {}

C9_Witness ==
  /\ rpc = "resolved" /\ Len(targetLocales) = 3
  /\ files[2].errno = "ENOENT" /\ readOrder = <<2, 3, 1>>
  /\ Len(readResult.bundles) = 2
  /\ readResult.bundles[2].locale = Locale(3)

\* C10: once the output directory exists a write is attempted for every
\* target locale, whether and whenever another one fails: none is left
\* unissued, every file that can be written is on disk when all have settled,
\* and the operation fails if a write failed and succeeds only if all did.
C10_WriteIndependence ==
  (fmt = "xliff" /\ dirOk /\ wpc \in {"writing", "resolved", "rejected"}) =>
    /\ \A i \in DOMAIN targetLocales : writes[i] \in {"pending", "fulfilled", "rejected"}
    /\ \A i \in DOMAIN targetLocales :
         (writes[i] = "fulfilled") <=> (disk[i] # <<>>)
    /\ Settled(writes) =>
         /\ \A i \in DOMAIN targetLocales : writable[i] => disk[i] # <<>>
         /\ wpc = "rejected" <=> \E i \in DOMAIN targetLocales : ~writable[i]
         /\ wpc = "resolved" <=> \A i \in DOMAIN targetLocales : writable[i]
    /\ wpc = "resolved" => \A i \in DOMAIN targetLocales : writes[i] = "fulfilled"
    /\ wpc = "rejected" =>
         /\ \E i \in DOMAIN targetLocales : writes[i] = "rejected"
         /\ writeError.what = ErrFile

C10_Witness ==
  /\ fmt = "xliff" /\ Len(targetLocales) = 3 /\ dirOk
  /\ writeOrder = <<1, 2, 3>> /\ writes = <<"rejected", "fulfilled", "fulfilled">>
  /\ wpc = "rejected"
  /\ (parseXlif(disk[3])).ok /\ (parseXlif(disk[3])).locale = Locale(3)

\* The directory and the file a write path reports on.
DirPathOf(f) == IF f = "xlb" THEN dirname(XlbFilePath) ELSE XliffDir
FilePathOf(f, i) == IF f = "xlb" THEN XlbFilePath ELSE XliffPath(targetLocales[i])

IsKnownErrorAbout(e, what, path) ==
  /\ e.name = "KnownError" /\ e.what = what /\ e.path = path
  /\ e.hint = PermissionHint

\* No write has been started while the directory is not there, a failed
\* directory fails the operation with no write, a failed write fails it.
C11_Ordered ==
  /\ (\E i \in DOMAIN writes : writes[i] # "notIssued") =>
       dirOk /\ wpc \in {"writing", "resolved", "rejected"}
  /\ (~dirOk /\ wpc \notin {"idle", "ensureDir"}) =>
       /\ wpc = "rejected"
       /\ \A i \in DOMAIN writes : writes[i] = "notIssued" /\ disk[i] = <<>>
       /\ IsKnownErrorAbout(writeError, IF fmt = "xlb" THEN ErrXlbDir ELSE ErrDir,
                            DirPathOf(fmt))
  /\ (\E i \in DOMAIN writes : writes[i] = "rejected") =>
       /\ wpc = "rejected"
       /\ LET first == writeOrder[CHOOSE k \in DOMAIN writeOrder :
                                    /\ writes[writeOrder[k]] = "rejected"
                                    /\ \A j \in 1..(k - 1) : writes[writeOrder[j]] # "rejected"]
          IN IsKnownErrorAbout(writeError, IF fmt = "xlb" THEN ErrXlbFile ELSE ErrFile,
                               FilePathOf(fmt, first))
  /\ (dirOk /\ wpc = "rejected") => \E i \in DOMAIN writes : writes[i] = "rejected"

\* A write is started only by the step in which ensureDir succeeds.
C11_IssuedOnSuccess ==
  (\E i \in DOMAIN writes : writes[i] = "notIssued" /\ writes'[i] # "notIssued")
    => (wpc = "ensureDir" /\ dirOk /\ wpc' \in {"writing", "resolved"})

\* C11: in the writeOutput of both formatters the directory is created before
\* any file write is started; if creating it fails no write is attempted and
\* the operation fails with a KnownError that names the directory and asks
\* about write permission; if a file write fails the operation fails with a
\* KnownError that names that file and asks about write permission.
C11_DirBeforeWrite == []C11_Ordered /\ [][C11_IssuedOnSuccess]_vars

C11_Witness ==
  /\ fmt = "xliff" /\ dirOk /\ Len(targetLocales) = 2
  /\ writeOrder = <<2>> /\ writes = <<"pending", "rejected">>
  /\ wpc = "rejected"
  /\ writeError.path = <<<<"d", "a", "t", "a">>, <<"x", "l", "i", "f", "f">>,
                         <<"l", "2", ".", "x", "l", "f">>>>

-----------------------------------------------------------------------------
(* Claims about the transformer.                                           *)

\* The node uses the API of the library somewhere.
RECURSIVE UsesApi(_)
UsesApi(node) ==
  \/ node.kind \in {"msg", "configureTransformLocalization", "configureLocalization",
                    "Localized", "LOCALE_STATUS_EVENT"}
  \/ node.kind = "import" /\ node.text = LitLocalizeModule
  \/ \E i \in DOMAIN node.kids : UsesApi(node.kids[i])

\* The identifiers of the msg calls in a node.
RECURSIVE MsgIds(_)
MsgIds(node) ==
  (IF node.kind = "msg" THEN {MsgId(node)} ELSE {})
    \cup UNION {MsgIds(node.kids[i]) : i \in DOMAIN node.kids}

LookupNames == {txTranslations.messages[i].name : i \in DOMAIN txTranslations.messages}

\* The expression slots of an emitted string or template.
Slots(node) == IF node.kind = "html" THEN node.kids[1].kids ELSE node.kids

\* The literal text of an emitted string or template.
LiteralText(node) ==
  CASE node.kind = "html" -> Flatten(node.kids[1].parts)
    [] node.kind = "tpl" -> Flatten(node.parts)
    [] OTHER -> node.text

\* The markup payloads <...> of a text, in order.
RECURSIVE MarkupIn(_)
MarkupIn(text) ==
  IF text = <<>> THEN <<>>
  ELSE IF Head(text) = "<" /\ \E j \in DOMAIN text : text[j] = ">"
  THEN LET close == CHOOSE j \in DOMAIN text :
                      text[j] = ">" /\ \A k \in 1..(j - 1) : text[k] # ">"
       IN <<SubSeq(text, 1, close)>> \o MarkupIn(Drop(text, close))
  ELSE MarkupIn(Tail(text))

Occurrences(seq, x) == Cardinality({i \in DOMAIN seq : seq[i] = x})
Reordered(s, t) ==
  /\ Len(s) = Len(t)
  /\ \A i \in DOMAIN s : Occurrences(s, s[i]) = Occurrences(t, s[i])

Transformed == txOut # NotRun /\ txPlain # NotRun

\* C3: when replaceMsgCall substitutes a translation for a call site, the
\* placeholders of the emitted template (expression slots and markup) are
\* those the source message of the call site is emitted with, at most
\* reordered: none is invented, dropped or edited.
C3_PlaceholderImmutability ==
  ( /\ Transformed /\ txNode.kind = "msg"
    /\ txTranslations.defined /\ MsgId(txNode) \in LookupNames
    /\ ~IsThrown(txOut) /\ ~IsThrown(txPlain) ) =>
    /\ Reordered(Slots(txOut), Slots(txPlain))
    /\ Reordered(MarkupIn(LiteralText(txOut)), MarkupIn(LiteralText(txPlain)))

C5_FlatteningIdempotence ==
  txFlat2 # NotRun => txFlat2 = txFlat1

\* C6: a transform that completes without error leaves no msg call, no import
\* of the library, no configuration call, no Localized call and no reference
\* to the status event in the tree.
C6_NoResidualApi ==
  (txOut # NotRun /\ ~IsThrown(txOut)) => ~UsesApi(txOut)

\* Whether a configureLocalization(...) call is somewhere in a node.
RECURSIVE CallsConfigureLocalization(_)
CallsConfigureLocalization(node) ==
  \/ node.kind = "configureLocalization"
  \/ \E i \in DOMAIN node.kids : CallsConfigureLocalization(node.kids[i])

\* Whether a thrown error names a file: its message is a fixed text, the
\* parts are the texts interpolated into it.
NamesFile(error, fileName) ==
  \E i \in DOMAIN error.parts : error.parts[i] = fileName

\* C12: the transform of a file that contains a configureLocalization call
\* fails, in the source-locale pass and in a target-locale pass alike, with a
\* known error that identifies the file, and produces no rewritten tree.
C12_ConfigureLocalizationRejected ==
  (Transformed /\ txNode.kind = "file" /\ CallsConfigureLocalization(txNode)) =>
    /\ IsThrown(txOut) /\ IsThrown(txPlain)
    /\ txOut.text = <<"Cannot use configureLocalization in transform mode">>
    /\ txPlain.text = txOut.text
    /\ NamesFile(txOut, txNode.text) /\ NamesFile(txPlain, txNode.text)

\* The nodes of a kind in a tree.
RECURSIVE NodesOfKind(_, _)
NodesOfKind(node, kind) ==
  (IF node.kind = kind THEN {node} ELSE {})
    \cup UNION {NodesOfKind(node.kids[i], kind) : i \in DOMAIN node.kids}

\* C13: a transform that completes leaves no configureTransformLocalization
\* call in the tree: each one, whatever its arguments, has become the literal
\* {getLocale: () => "<locale>"} with the locale of the pass, the source
\* locale in the pass without a lookup and the target locale otherwise.
C13_ConfigureTransformReplaced ==
  (Transformed /\ ~IsThrown(txOut) /\ ~IsThrown(txPlain)) =>
    /\ txNode.kind = "configureTransformLocalization" =>
         /\ txOut = GetLocaleLiteral(IF txTranslations.defined THEN Locale(1)
                                     ELSE SourceLocale)
         /\ txPlain = GetLocaleLiteral(txLocale)
    /\ NodesOfKind(txOut, "configureTransformLocalization") = {}
    /\ \A n \in NodesOfKind(txOut, "getLocale") : n = GetLocaleLiteral(txLocale)

\* The directory below the output root that is named after a locale.
LocaleDirOf(root, locale) ==
  (IF root = <<<<".">>>> THEN <<>> ELSE root) \o <<locale>>

\* C14: the emits transformOutput has performed are, in order, one for the
\* source locale and then one for each target locale (all of them once it
\* completes); each went to <output root>/<locale>, the root being the one
\* the compiler options had before the call; the source locale was emitted
\* without a lookup, a target locale with a lookup holding the messages
\* translationsByLocale has for that locale, none if it has none.
C14_OneEmitPerLocale ==
  /\ Len(emitted) <= 1 + Len(targetLocales)
  /\ epc = "resolved" => Len(emitted) = 1 + Len(targetLocales)
  /\ epc = "emitting" => Len(emitted) < 1 + Len(targetLocales)
  /\ emitted # <<>> => outRoot \in {<<<<".">>>>, <<<<"o", "u", "t">>>>}
  /\ \A k \in DOMAIN emitted :
       /\ emitted[k].locale = (<<SourceLocale>> \o targetLocales)[k]
       /\ emitted[k].outDir = LocaleDirOf(outRoot, emitted[k].locale)
       /\ k = 1 => emitted[k].translations = NoLookup
       /\ k > 1 =>
            /\ emitted[k].translations.defined
            /\ emitted[k].translations.messages
                 = IF targetLocales[k - 1] \in DOMAIN translationsByLocale
                   THEN translationsByLocale[targetLocales[k - 1]] ELSE <<>>
            /\ emitted[k].translations.messages \in LocaleMessages(k - 1)

C14_Witness ==
  /\ epc = "resolved" /\ Len(targetLocales) = 3 /\ Len(emitted) = 4
  /\ DOMAIN translationsByLocale = {Locale(1), Locale(3)}
  /\ optsOutDir = <<<<"o", "u", "t">>, <<"l", "3">>>>
  /\ emitted[2].outDir = <<<<"o", "u", "t">>, <<"l", "1">>>>
  /\ emitted[3].translations.messages = <<>>
  /\ emitted[4].translations.messages # <<>>
  /\ emitted[4].output # emitted[1].output

\* The id option of a call site, and the identifier its source template and
\* richness flag give.
HasIdOption(call) == Len(call.kids) >= 2 /\ call.kids[2].text # <<>>
DerivedId(call) ==
  generateMsgIdFromAstNode((extractTemplate(call.kids[1])).template,
                           (extractTemplate(call.kids[1])).isLitTemplate)

\* What a call site is replaced by when its translation is the one the lookup
\* has under the given identifier.
ReplacedUnder(call, id, templateResult, ctx) ==
  ReplaceBy(SubstituteArgs(call.kids[1],
                           TranslatedTemplate(
                             templateResult.template,
                             IF ctx.translations.defined
                             THEN makeMessageIdMapGet(ctx.translations.messages, id)
                             ELSE <<>>),
                           templateResult.params, extractOptions(call)),
            templateResult.isLitTemplate, ctx)

ReplacedAs(call, id) ==
  ReplacedUnder(call, id, extractTemplate(call.kids[1]),
                [translations |-> txTranslations, locale |-> txLocale])

\* The literal texts of a source template, around its expressions.
LiteralPartsOf(template) ==
  IF template.kind = "str" THEN <<template.text>> ELSE template.parts

SameShape(c, d) ==
  /\ (extractTemplate(c.kids[1])).isLitTemplate = (extractTemplate(d.kids[1])).isLitTemplate
  /\ LiteralPartsOf((extractTemplate(c.kids[1])).template)
       = LiteralPartsOf((extractTemplate(d.kids[1])).template)

\* C15: a call site is replaced by the translation found under its id option
\* when it has one, and else under the identifier derived from its source
\* template and richness flag; two call sites of a file with the same
\* template shape and flag and no id option are replaced by the translation
\* found under one and the same identifier.
C15_EffectiveIdentifier ==
  (txOut # NotRun /\ txTranslations.defined) =>
    /\ (txNode.kind = "msg" /\ ~(extractTemplate(txNode.kids[1])).error) =>
         txOut = ReplacedAs(txNode, IF HasIdOption(txNode) THEN txNode.kids[2].text
                                    ELSE DerivedId(txNode))
    /\ (txNode \in TwoCallFiles /\ ~IsThrown(txOut)) =>
         /\ \A i \in 1..2 :
              txOut.kids[i] = ReplacedAs(txNode.kids[i],
                                         IF HasIdOption(txNode.kids[i])
                                         THEN txNode.kids[i].kids[2].text
                                         ELSE DerivedId(txNode.kids[i]))
         /\ ( /\ ~HasIdOption(txNode.kids[1]) /\ ~HasIdOption(txNode.kids[2])
              /\ SameShape(txNode.kids[1], txNode.kids[2]) ) =>
              txOut.kids[2] = ReplacedAs(txNode.kids[2], DerivedId(txNode.kids[1]))

C15_Witness ==
  /\ txOut # NotRun /\ ~IsThrown(txOut)
  /\ txNode = SourceFileNode(<<MsgParam(StringLiteral(<<"W">>)), MsgParam(Identifier(<<"y">>))>>)
  /\ txTranslations.defined
  /\ DerivedId(txNode.kids[1]) \in LookupNames
  /\ txOut.kids[1] # txOut.kids[2]
  /\ LiteralText(txOut.kids[1]) = <<"W", "!">>
  /\ LiteralText(txOut.kids[2]) = <<"!">>

\* A document whose parse gets to the contents of its units: one root
\* element with a locale, every unit named, none with two targets.
ReadsUnits ==
  /\ cpc = "parsed" /\ docIn.onDisk
  /\ docIn.roots = 1 /\ docIn.locale \in {"es", "ES"}
  /\ \A k \in DOMAIN docIn.units :
       docIn.units[k].name # "absent" /\ (fmt = "xliff" => docIn.units[k].targets <= 1)

\* The units whose contents are parsed and hold a <ph> that does not have
\* exactly one text node.
BadPhUnits ==
  { k \in DOMAIN docIn.units :
      /\ fmt = "xlb" \/ docIn.units[k].targets = 1
      /\ \E i \in DOMAIN docIn.units[k].children :
           docIn.units[k].children[i] \in {PhEmpty, PhElement, PhTwo} }

\* C16: a <ph> with no child, with a child that is not text or with more than
\* one child fails the parse, with no Bundle and with a known error that
\* names the unit it is in; a <ph> with exactly one text node becomes a
\* Placeholder with that text.
C16_PlaceholderShape ==
  ReadsUnits =>
    /\ BadPhUnits # {} =>
         /\ ~bundle.ok /\ bundle.messages = <<>> /\ bundle.error = ErrPh
         /\ \E k \in BadPhUnits : \E v \in DOMAIN bundle.values :
              bundle.values[v] = <<docIn.units[k].name>>
    /\ BadPhUnits = {} =>
         \A k \in DOMAIN docIn.units :
           (docIn.units[k].targets = 1
              /\ docIn.units[k].children = <<TextNode(<<"h">>), PhText>>) =>
             (bundle.ok /\ \E j \in DOMAIN bundle.messages :
                /\ bundle.messages[j].name = <<docIn.units[k].name>>
                /\ bundle.messages[j].contents
                     = <<TextRun(<<"h">>), Placeholder(<<"<", "b", ">">>)>>)

\* The ids of the units that have one <target>, in document order.
RECURSIVE TranslatedUnitNames(_)
TranslatedUnitNames(units) ==
  IF units = <<>> THEN <<>>
  ELSE (IF Head(units).targets = 1 THEN <<<<Head(units).name>>>> ELSE <<>>)
       \o TranslatedUnitNames(Tail(units))

\* An XLIFF document whose parse gets to its units, and whose units with one
\* <target> have an id and contents that parse.
ReadsTargets ==
  /\ fmt = "xliff" /\ cpc = "parsed" /\ docIn.onDisk
  /\ docIn.roots = 1 /\ docIn.locale \in {"es", "ES"}
  /\ \A k \in DOMAIN docIn.units :
       docIn.units[k].targets = 1 =>
         /\ docIn.units[k].name # "absent"
         /\ docIn.units[k].children
              \in {<<>>, <<TextNode(<<"h", "o", "l", "a">>)>>, <<TextNode(<<"h">>), PhText>>}

TargetCountRule ==
  IF \E k \in DOMAIN docIn.units : docIn.units[k].targets > 1
  THEN ~bundle.ok /\ bundle.messages = <<>> /\ bundle.error # NoError
  ELSE /\ bundle.ok
       /\ [j \in DOMAIN bundle.messages |-> bundle.messages[j].name]
            = TranslatedUnitNames(docIn.units)

\* C17: in parseXlif a trans-unit without <target> adds no Message and no
\* error, a trans-unit with one <target> adds one Message named by its id, in
\* document order, and a trans-unit with more than one <target> fails the
\* whole parse with a known error and no Bundle.
C17_TargetCountRule == ReadsTargets => TargetCountRule

\* C17 (amended): the same, for documents in which the trans-units without
\* <target> have a non-empty id too; the error of a unit with several targets
\* is the one that tells their number.
C17_TargetCountRuleOfNamedUnits ==
  (ReadsTargets /\ \A k \in DOMAIN docIn.units : docIn.units[k].name # "absent") =>
    /\ TargetCountRule
    /\ (\E k \in DOMAIN docIn.units : docIn.units[k].targets > 1) =>
         (bundle.error = ErrTargets /\ bundle.values = <<<<"2">>>>)

C17_Witness ==
  /\ ReadsTargets /\ Len(docIn.units) = 2
  /\ docIn.units[1].name = "a" /\ docIn.units[1].targets = 0
  /\ docIn.units[2].name = "b" /\ docIn.units[2].targets = 1
  /\ bundle.ok /\ Len(bundle.messages) = 1 /\ bundle.messages[1].name = <<"b">>

\* C18: after a render of classMap every name of the classInfo is a class of
\* the element if its value is truthy and is not if its value is falsy, on
\* the first render as on later ones, whether or not the name is also in the
\* static part of the class attribute.
C18_FalsyRemoved ==
  renders > 0 =>
    \A name \in DOMAIN classInfo :
      (name \in classList) <=> Truthy(classInfo[name])

\* C19: when the writeOutput of the XLIFF formatter has resolved or rejected,
\* no writeFile it issued is still pending.
C19_JoinBeforeProceeding ==
  (fmt = "xliff" /\ wpc \in {"resolved", "rejected"}) =>
    \A i \in DOMAIN writes : writes[i] # "pending"

\* The read that was the first to fail.
FirstFailedRead ==
  readOrder[CHOOSE k \in DOMAIN readOrder :
              /\ reads[readOrder[k]] = "rejected"
              /\ \A j \in 1..(k - 1) : reads[readOrder[j]] # "rejected"]

\* C20: from the moment a read of readTranslations has failed with an error
\* other than a missing file, in whatever order the reads complete,
\* readTranslations is rejected with the error of the read that failed first,
\* and returns no Bundle, whatever the other reads give afterwards.
C20_FirstErrorWins ==
  (\E i \in DOMAIN reads : reads[i] = "rejected") =>
    /\ rpc = "rejected"
    /\ ~readResult.ok /\ readResult.bundles = <<>>
    /\ readResult.error = (readTask(files[FirstFailedRead])).value.error

C20_Witness ==
  /\ Len(targetLocales) = 3
  /\ files = <<DeniedFile, MalformedFile, TranslatedFile(3)>>
  /\ readOrder = <<2, 3, 1>> /\ reads = <<"rejected", "rejected", "fulfilled">>
  /\ rpc = "rejected" /\ readResult.error = ErrTargets /\ readResult.bundles = <<>>

-----------------------------------------------------------------------------
(* Claims about the rest of the transformer.                               *)

\* A Localized(...) call whose number of arguments is not one.
IsBadLocalized(node) == node.kind = "Localized" /\ Len(node.kids) # 1

\* The Localized(...) calls in a tree.
LocalizedCalls(node) == NodesOfKind(node, "Localized")

\* C21: a Localized(...) call with one argument is replaced by that argument;
\* with no argument, or with two, it makes the transform fail with the error
\* about the mixin call, so that a transform that completes leaves no
\* Localized call in the tree.
C21_LocalizedHelper ==
  txOut # NotRun =>
    /\ (txNode.kind = "Localized" /\ Len(txNode.kids) = 1) => txOut = txNode.kids[1]
    /\ IsBadLocalized(txNode) =>
         txOut = Thrown("Expected Localized mixin call to have one argument")
    /\ ~IsThrown(txOut) => LocalizedCalls(txOut) = {}

\* The template replaceMsgCall has in hand at line 300: the translation of
\* the call site when the lookup holds one, the source template otherwise.
TemplateAtSubstitution(call) ==
  TranslatedTemplate((extractTemplate(call.kids[1])).template,
                     TranslationOf(call, [translations |-> txTranslations,
                                          locale |-> txLocale]))

\* The positions a name is declared at in the parameter list.
DeclaredAt(paramNames, name) == {i \in DOMAIN paramNames : paramNames[i] = name}

\* The slot is a bare reference to a declared parameter that has an argument.
IsSuppliedParameter(slot, paramNames, options) ==
  /\ slot.kind = "ident"
  /\ options.hasArgs
  /\ \E i \in DOMAIN paramNames : paramNames[i] = slot.text /\ i <= Len(options.args)

\* The argument of the parameter a slot refers to.
ArgumentOf(slot, paramNames, options) ==
  options.args[CHOOSE i \in DOMAIN paramNames : paramNames[i] = slot.text]

\* A parameterized call site, transformed, whose template has slots at the
\* substitution.
SubstitutesParameters ==
  /\ txOut # NotRun /\ txNode.kind = "msg"
  /\ txNode.kids[1].kind = "arrow"
  /\ ~(extractTemplate(txNode.kids[1])).error
  /\ ~IsThrown(TemplateAtSubstitution(txNode))
  /\ isTemplateExpression(TemplateAtSubstitution(txNode))

\* The call site as replaceMsgCall emits it when every slot k of the template
\* holds the argument of the parameter the slot names.
EmittedWithArguments(call, template, paramNames, options, isLit) ==
  ReplaceBy(TemplateLiteral(template.parts,
                            [k \in DOMAIN template.kids |->
                               ArgumentOf(template.kids[k], paramNames, options)]),
            isLit, [translations |-> txTranslations, locale |-> txLocale])

SubstitutionErrors ==
  { <<"Expected expression to be identifier">>, <<"No value provided">>,
    <<"Internal error, expected paramNames and options.args to be defined">> }

\* C22: at a parameterized call site whose source or translated template has
\* expression slots, every slot that names the i-th parameter gets the i-th
\* argument, wherever the slot stands and however often the parameter is
\* named; a slot that is not an identifier, that names no parameter, or that
\* names a parameter without an argument makes the transform fail.
C22_ParameterSubstitution ==
  SubstitutesParameters =>
    LET template == TemplateAtSubstitution(txNode)
        templateResult == extractTemplate(txNode.kids[1])
        options == extractOptions(txNode)
    IN IF \A k \in DOMAIN template.kids :
            IsSuppliedParameter(template.kids[k], templateResult.params, options)
       THEN txOut = EmittedWithArguments(txNode, template, templateResult.params,
                                         options, templateResult.isLitTemplate)
       ELSE IsThrown(txOut) /\ txOut.text \in SubstitutionErrors

\* The translation `${z}y${x}` of `${x}&${z}` with the arguments a and b is
\* emitted as `${b}y${a}`.
C22_Witness ==
  /\ SubstitutesParameters
  /\ txNode = MsgTwo(<<Identifier(<<"a">>), Identifier(<<"b">>)>>)
  /\ TemplateAtSubstitution(txNode).kids = <<Identifier(<<"z">>), Identifier(<<"x">>)>>
  /\ txOut = TemplateLiteral(<< <<>>, <<"y">>, <<>> >>,
                             <<Identifier(<<"b">>), Identifier(<<"a">>)>>)

\* A call site that is not rich, with a template that extractTemplate accepts.
IsPlainCallSite(call) ==
  /\ call.kind = "msg"
  /\ ~(extractTemplate(call.kids[1])).error
  /\ ~(extractTemplate(call.kids[1])).isLitTemplate

\* The template has no expression slot: a string or a template without
\* substitution.
HasNoSlots(template) == ~IsThrown(template) /\ ~isTemplateExpression(template)

\* C23: a call site that is not rich and whose template, after the lookup
\* of the translation and the substitution of the arguments, has no
\* expression slot is replaced by a string literal node, in the pass of the
\* source locale and in the pass of a target locale that substitutes a
\* translation.
C23_PlainStringEmission ==
  (Transformed /\ IsPlainCallSite(txNode)) =>
    /\ HasNoSlots(TemplateAtSubstitution(txNode)) => txOut.kind = "str"
    /\ HasNoSlots((extractTemplate(txNode.kids[1])).template) => txPlain.kind = "str"

\* A text as one fragment per character.
CharFragments(text) == [i \in DOMAIN text |-> TextFragment(<<text[i]>>)]

\* A template from its k-th literal part on, as the sequence of its
\* characters and of its expression slots.
RECURSIVE Linear(_, _)
Linear(template, k) ==
  CharFragments(template.parts[k])
    \o (IF k <= Len(template.kids)
        THEN <<template.kids[k]>> \o Linear(template, k + 1)
        ELSE <<>>)

\* A string literal, an untagged template, or in a rich parent an
\* html-tagged template.
Inlinable(expression, isLit) ==
  \/ expression.kind \in {"str", "tpl"}
  \/ isLit /\ expression.kind = "html"

\* The expression of a slot as written when that can be inlined, as the
\* visitor transforms it otherwise.
WrittenOrTransformed(expression, isLit) ==
  IF Inlinable(expression, isLit) THEN expression
  ELSE visitNode(expression, [translations |-> txTranslations, locale |-> txLocale])

\* What a slot leaves in its parent: its text or the characters and slots of
\* its own flattening when it is inlined, itself otherwise.
LeftInParent(expression, isLit) ==
  CASE expression.kind = "str" -> CharFragments(expression.text)
    [] expression.kind = "tpl" -> Linear(FlattenAndMake(expression, FALSE), 1)
    [] isLit /\ expression.kind = "html" ->
         Linear(FlattenAndMake(expression.kids[1], TRUE), 1)
    [] OTHER -> <<expression>>

RECURSIVE FlattenedLinear(_, _, _)
FlattenedLinear(template, k, isLit) ==
  CharFragments(template.parts[k])
    \o (IF k <= Len(template.kids)
        THEN LeftInParent(WrittenOrTransformed(template.kids[k], isLit), isLit)
               \o FlattenedLinear(template, k + 1, isLit)
        ELSE <<>>)

\* The template FlattenOnce was applied to.
FlattenedTemplate == IF txNode.kind = "tpl" THEN txNode ELSE txNode.kids[1]

\* C24: in the flattened template every slot that is, as written or once
\* visited, a string, an untagged template or (parent rich) an html-tagged
\* template has become literal text of the parent, the slots of an inlined
\* template becoming slots of the parent; every other expression is a slot at
\* the same place; an html-tagged template in a parent that is not rich
\* stays a slot.
C24_FlatteningRule ==
  (txFlat1 # NotRun /\ ~IsThrown(txFlat1)) =>
    /\ Linear(txFlat1, 1) = FlattenedLinear(FlattenedTemplate, 1, txIsLit)
    /\ \A k \in DOMAIN FlattenedTemplate.kids :
         (~txIsLit /\ FlattenedTemplate.kids[k].kind = "html") =>
           \E j \in DOMAIN txFlat1.kids : txFlat1.kids[j].kind = "html"

\* `a${html`<i>${msg('Wo', {id: 'w'})}</i>`}b` flattened as a parent that is
\* not rich keeps the (transformed) html template as its slot.
C24_Witness ==
  /\ txFlat1 # NotRun /\ ~txIsLit
  /\ txNode = TemplateLiteral(<< <<"a">>, <<"b">> >>, <<RichWithCall>>)
  /\ ~txTranslations.defined
  /\ txFlat1 = TemplateLiteral(<< <<"a">>, <<"b">> >>,
                 <<tagLit(TemplateLiteral(
                     << <<"<", "i", ">", "W", "o", "<", "/", "i", ">">> >>, <<>>))>>)

-----------------------------------------------------------------------------
(* Claims about the layout of the XML the codecs write.                    *)

\* The text was produced by a write path of the format.
Serialized(f) == cpc \in {"written", "parsed"} /\ fmt = f /\ ~docIn.onDisk

IsChr(tok, c) == tok.t = "chr" /\ tok.name = c

\* The number of elements open before the token at i.
NestingDepth(toks, i) ==
  Cardinality({j \in 1..(i - 1) : toks[j].t = "open"})
    - Cardinality({j \in 1..(i - 1) : toks[j].t = "close"})

\* The number of spaces that stand directly before the token at i.
SpacesBefore(toks, i) ==
  Cardinality({j \in 1..(i - 1) : \A k \in j..(i - 1) : IsChr(toks[k], " ")})

\* The element whose start tag is at i starts on a line of its own: only
\* spaces stand between the last newline and the tag.
StartsLine(toks, i) ==
  /\ toks[i].t \in {"open", "empty"}
  /\ i - SpacesBefore(toks, i) > 1
  /\ IsChr(toks[i - SpacesBefore(toks, i) - 1], "\n")

TwoSpacesPerLevel(toks) ==
  \A i \in DOMAIN toks :
    StartsLine(toks, i) => SpacesBefore(toks, i) = 2 * NestingDepth(toks, i)

\* C25: in the document either codec writes, an element that starts on a line
\* of its own at depth d has exactly 2*d spaces between the newline and its
\* start tag, and writing the same input again gives the same document.
C25_IndentationConvention ==
  /\ Serialized("xlb") =>
       TwoSpacesPerLevel(xmlStr) /\ xmlStr = XlbSerialize(sourceMessages)
  /\ Serialized("xliff") =>
       /\ TwoSpacesPerLevel(xmlStr)
       /\ xmlStr = encodeLocale(sourceMessages, targetLocale, targetMessages)

-----------------------------------------------------------------------------
(* Claims about the lookup of transformOutput.                             *)

\* The positions of the messages of a name in a list.
PositionsOf(messages, name) == {j \in DOMAIN messages : messages[j].name = name}

\* The last message of a name in a list that holds one.
LastNamed(messages, name) ==
  messages[CHOOSE j \in PositionsOf(messages, name) :
             \A i \in PositionsOf(messages, name) : i <= j]

\* The call site as a transformer rewrites it whose lookup holds one message.
RewrittenWith(call, message, locale) ==
  litLocalizeTransform([defined |-> TRUE, messages |-> <<message>>], locale, call)

\* C26: in the emit of a target locale every call site whose identifier
\* several messages of the locale's list carry is rewritten with the contents
\* of the last of them in list order, wherever the other messages stand.
\* (The import of the library is the first statement of the program and is
\* removed, so statement s of the program is statement s - 1 of the output.)
C26_DuplicateIdsLastWins ==
  \A k \in DOMAIN emitted : \A s \in DOMAIN txNode.kids :
    ( /\ k > 1 /\ txNode.kids[s].kind = "msg"
      /\ PositionsOf(emitted[k].translations.messages, MsgId(txNode.kids[s])) # {} ) =>
      emitted[k].output.kids[s - 1]
        = RewrittenWith(txNode.kids[s],
                        LastNamed(emitted[k].translations.messages, MsgId(txNode.kids[s])),
                        emitted[k].locale)

\* The list w:N1, w:M1 around g:O rewrites msg('Wo', {id: 'w'}) with M1 and
\* the html call site g with O.
C26_Witness ==
  /\ epc = "resolved" /\ Len(emitted) >= 2
  /\ txNode.kids = <<ImportDeclaration(LitLocalizeModule), MsgRich, MsgWorld>>
  /\ Len(emitted[2].translations.messages) = 3
  /\ Cardinality(PositionsOf(emitted[2].translations.messages, <<"w">>)) = 2
  /\ emitted[2].output.kids
       = << tagLit(TemplateLiteral(<< <<"O">> >>, <<>>)),
            TemplateLiteral(<< <<"M", "1">> >>, <<>>) >>

-----------------------------------------------------------------------------
(* Claims about the order of what readTranslations returns.                *)

\* The positions, in the configured order, of the target locales whose file
\* exists.
ExistingFiles ==
  SelectSeq([i \in DOMAIN files |-> i], LAMBDA i : files[i].errno # "ENOENT")

\* C27: when readTranslations resolves, its Bundles are those of the target
\* locales whose file exists, one for each, in the order of the target locale
\* list: the k-th Bundle is what parseXlif makes of the k-th existing file,
\* in whatever order the reads completed.
C27_ReadResultOrdering ==
  rpc = "resolved" =>
    /\ Len(readResult.bundles) = Len(ExistingFiles)
    /\ \A k \in DOMAIN readResult.bundles :
         /\ readResult.bundles[k] = parseXlif(files[ExistingFiles[k]].content)
         /\ readResult.bundles[k].locale = targetLocales[ExistingFiles[k]]

\* The reads of three locales complete last to first, the second file is
\* missing: the Bundles are those of the first and of the third locale.
C27_Witness ==
  /\ rpc = "resolved" /\ Len(targetLocales) = 3
  /\ readOrder = <<3, 2, 1>> /\ ExistingFiles = <<1, 3>>
  /\ readResult.bundles[1].locale = Locale(1)
  /\ readResult.bundles[2].locale = Locale(3)

-----------------------------------------------------------------------------
(* Claims about the bookkeeping of classMap.                               *)

\* The names whose value in a ClassInfo is truthy.
TruthyNames(info) == {name \in DOMAIN info : Truthy(info[name])}

\* After an update previousClasses is the set of the truthy names of the
\* classInfo that was applied.
BookkeepingExact == renders > 0 => previousClasses.names = TruthyNames(classInfo)

\* An update after the first adds a name to classList, or removes one from
\* it, only if the name enters or leaves the set of truthy names.
EditsOnlyChanges ==
  (renders > 0 /\ renders' = renders + 1) =>
    \A i \in DOMAIN ClassNames :
      ((ClassNames[i] \in classList) # (ClassNames[i] \in classList')) =>
        ((ClassNames[i] \in TruthyNames(classInfo))
           # (ClassNames[i] \in TruthyNames(classInfo')))

\* C28: after every update, the first and the later ones, previousClasses
\* holds exactly the names whose value in the classInfo just applied is
\* truthy, and an update after the first touches a name in classList only
\* when the name entered or left that set.
C28_BookkeepingInvariant == []BookkeepingExact /\ [][EditsOnlyChanges]_vars

-----------------------------------------------------------------------------
(* Claims about makeTemplateLiteral.                                       *)

\* The positions of the expressions in the fragment list, in order.
ExpressionPositions ==
  SelectSeq([i \in DOMAIN fragmentList |-> i], LAMBDA i : fragmentList[i].kind # "text")

\* The position of the j-th expression; 0 stands before the list and the
\* position after the last expression is the one past the end.
Boundary(j) ==
  IF j = 0 THEN 0
  ELSE IF j > Len(ExpressionPositions) THEN Len(fragmentList) + 1
  ELSE ExpressionPositions[j]

\* The strings between two positions, concatenated.
StringsBetween(lo, hi) ==
  Flatten([i \in 1..(hi - lo - 1) |-> fragmentList[lo + i].text])

\* C29: the template made of a fragment list has one span per expression of
\* the list, in the same order; its head is the concatenation of the strings
\* before the first expression and the literal of each span that of the
\* strings between its expression and the next one, or the end; a list
\* without expression gives a template without substitution whose text is
\* the concatenation of all the strings.
C29_MakeTemplateStructure ==
  made # NotRun =>
    /\ made.kind = "tpl"
    /\ made.kids = [j \in DOMAIN ExpressionPositions |-> fragmentList[ExpressionPositions[j]]]
    /\ made.parts = [j \in 1..(Len(ExpressionPositions) + 1) |->
                       StringsBetween(Boundary(j - 1), Boundary(j))]
    /\ ExpressionPositions = <<>> =>
         made = TemplateLiteral(
                  <<Flatten([i \in DOMAIN fragmentList |-> fragmentList[i].text])>>, <<>>)

\* 'a', y, 'b', 'a' gives `a${y}ba`.
C29_Witness ==
  /\ made # NotRun
  /\ fragmentList = <<TextFragment(<<"a">>), Identifier(<<"y">>),
                      TextFragment(<<"b">>), TextFragment(<<"a">>)>>
  /\ made = TemplateLiteral(<< <<"a">>, <<"b", "a">> >>, <<Identifier(<<"y">>)>>)

====
